---------------------------- MODULE Spec2Model ----------------------------
(***************************************************************************)
(* A model of the Reflyx server core:                                      *)
(*   - LLMService provider table, health sweep and provider selection      *)
(*     (server/app/services/llm_service.py)                                *)
(*   - EmbeddingService cache and batch embedding                          *)
(*     (indexer/embeddings/sentence_transformer.py)                        *)
(*   - WebSocketManager sessions and streaming tasks under asyncio         *)
(*     (server/app/services/websocket_manager.py, api/v1/websocket.py)     *)
(* Each subsystem has its own specification; the variables of the other    *)
(* subsystems stay at their initial value.                                 *)
(***************************************************************************)
EXTENDS Integers, Sequences, FiniteSets, TLC

None == "None"

(***************************************************************************)
(* Generic helpers                                                         *)
(***************************************************************************)
Range(s) == { s[i] : i \in 1..Len(s) }

SeqsUpTo(S, n) == UNION { [1..k -> S] : k \in 0..n }

VARIABLES
    \* ---- LLMService (llm_service.py) ----
    providers,        \* self.providers: the configured providers (dict keys)
    provider_status,  \* self.provider_status: dict in insertion order, as a sequence
    current_mode,     \* self.current_mode
    sweep_todo,       \* providers the running health sweep has still to probe
    llm_result,       \* what the last select_best_provider / generate_response gave
    \* ---- EmbeddingService (sentence_transformer.py) ----
    model,            \* self.model: "loaded" after initialize(), None before
    embedding_cache,  \* self._embedding_cache: text hash -> vector
    cache_file,       \* the pickled cache on disk: text hash -> vector
    computed,         \* per text hash, how many times the model has encoded it
    emb_calls,        \* calls made so far (bounded by MaxEmbCalls)
    emb_result,       \* the last call: its input and what it returned or raised
    \* ---- WebSocketManager (websocket_manager.py, api/v1/websocket.py) ----
    connections,      \* self.connections: client_id -> WebSocketConnection object
    connection,       \* the fields of the WebSocketConnection made for each websocket
    websocket,        \* each websocket: client_state, application_state, link lost
    streaming_tasks,  \* self.streaming_tasks: task_id -> asyncio.Task object
    tasks,            \* each asyncio.Task made by start_streaming_response
    stack,            \* the call stack (frames) of each coroutine
    waiting,          \* what each suspended coroutine awaits
    running,          \* the coroutine the event loop is running, or None
    exc,              \* the exception propagating in the running coroutine
    ret,              \* the value the last call returned to the running coroutine
    sent,             \* the stream messages each task has written, in order
    msgs_left,        \* messages the clients may still send (bounded by MaxMsgs)
    losses_left,      \* links that may still be lost (bounded by MaxLosses)
    next_task,        \* index of the next asyncio.Task object
    reserved,         \* stream queries accepted so far (bounded by MaxTasks)
    now,              \* time.time(), in units of the inactivity timeout
    \* ---- QdrantVectorStore (indexer/vector_store/qdrant_client.py) ----
    client,           \* self.client: "QdrantClient" after initialize(), or None
    collection_exists,\* self._collection_exists
    points,           \* the points of the collection in the Qdrant server
    next_uuid,        \* how many uuid4 values were drawn
    store_log,        \* the calls made so far, with what they returned or raised
    reindex,          \* the callers that re-index files: where each one is
    \* ---- RAGService (server/app/services/rag_service.py) ----
    embedding_service, \* self.embedding_service
    vector_store,     \* self.vector_store
    llm_service,      \* self.llm_service
    rag_log,          \* the calls made so far, with what they returned or raised
    \* ---- TreeSitterParser (indexer/parsers/tree_sitter_parser.py) ----
    parsers,          \* self.parsers: the languages a Tree-sitter parser was loaded for
    parse_call,       \* the arguments of the parse_file call
    parse_result      \* the stages the call went through and what it returned

llm_vars == <<providers, provider_status, current_mode, sweep_todo, llm_result>>

emb_vars == <<model, embedding_cache, cache_file, computed, emb_calls, emb_result>>

ws_vars == <<connections, connection, websocket, streaming_tasks, tasks, stack,
             waiting, running, exc, ret, sent, msgs_left, losses_left, next_task,
             reserved, now>>

store_vars == <<client, collection_exists, points, next_uuid, store_log, reindex>>

rag_vars == <<embedding_service, vector_store, llm_service, rag_log>>

par_vars == <<parsers, parse_call, parse_result>>

ext_vars == <<store_vars, rag_vars, par_vars>>

(***************************************************************************)
(* LLMService                                                              *)
(***************************************************************************)
\* The providers modelled (three of the six members of the enum), in the
\* order _initialize_providers inserts them into self.providers.
ModelProvider == <<"ollama", "openai", "anthropic">>

ProviderNames == Range(ModelProvider)

\* core/config.py: type and models (id, recommended) of each provider
MODEL_PROVIDERS ==
    [ollama |->
        [type |-> "local",
         models |-> << [id |-> "codellama:7b-code", recommended |-> TRUE],
                       [id |-> "deepseek-coder:6.7b", recommended |-> TRUE],
                       [id |-> "qwen2.5-coder:7b", recommended |-> TRUE],
                       [id |-> "llama2:7b", recommended |-> FALSE] >>],
     openai |->
        [type |-> "online",
         models |-> << [id |-> "gpt-4o", recommended |-> TRUE],
                       [id |-> "gpt-4-turbo", recommended |-> TRUE],
                       [id |-> "gpt-3.5-turbo", recommended |-> FALSE] >>],
     anthropic |->
        [type |-> "online",
         models |-> << [id |-> "claude-3-5-sonnet-20241022", recommended |-> TRUE],
                       [id |-> "claude-3-opus-20240229", recommended |-> TRUE],
                       [id |-> "claude-3-haiku-20240307", recommended |-> FALSE] >>]]

\* the keys of one entry of self.providers
ProviderEntryKeys == {"client", "config", "type"}

AiModes == {"local", "online", "hybrid"}

\* Measured response times are 0..MaxLatency (0: time.time() did not advance
\* between the two readings); NoTime is response_time = None.
MaxLatency == 2

NoTime == -1

Latencies == 0..MaxLatency

\* float('inf'): above every measured latency
Inf == MaxLatency + 1

\* self.providers.items() in insertion order
ProvidersList == SelectSeq(ModelProvider, LAMBDA p : p \in providers)

\* position of key name in the dict ps, 0 when absent
StatusIndex(ps, name) ==
    IF \E i \in 1..Len(ps) : ps[i].name = name
    THEN CHOOSE i \in 1..Len(ps) : ps[i].name = name
    ELSE 0

\* ps[rec.name] = rec on a dict kept in insertion order
DictSet(ps, rec) ==
    IF StatusIndex(ps, rec.name) = 0 THEN Append(ps, rec)
    ELSE [ps EXCEPT ![StatusIndex(ps, rec.name)] = rec]

\* the models of a ProviderStatus built from the provider's config
ConfigModels(name) == MODEL_PROVIDERS[name].models

\* a status that says available whatever the probe gave
CheckedStatusAlwaysAvailable(name, is_available, response_time) ==
    [name |-> name, available |-> TRUE, models |-> ConfigModels(name),
     error |-> None, response_time |-> response_time]

\* One pass of the loop body of _check_all_providers_status for provider
\* name: the probe answered is_available after response_time.
CheckedStatus(name, is_available, response_time) ==
    [name |-> name, available |-> is_available, models |-> ConfigModels(name),
     error |-> None, response_time |-> response_time]

\* next((m for m in models if m.recommended), default) where default is
\* models[dflt], or nothing when dflt = 0: the index of the model, 0 for none
NextRecommended(models, dflt) ==
    IF \E i \in 1..Len(models) : models[i].recommended
    THEN CHOOSE i \in 1..Len(models) :
            /\ models[i].recommended
            /\ \A j \in 1..(i - 1) : ~models[j].recommended
    ELSE dflt

get_available_providers(ps, mode) ==
    SelectSeq(ps, LAMBDA s :
        /\ s.available
        /\ (mode = None \/ MODEL_PROVIDERS[s.name].type = mode))

\* key=lambda p: p.response_time or float('inf')
LatencyKey(p) ==
    IF p.response_time = NoTime \/ p.response_time = 0 THEN Inf ELSE p.response_time

\* min(seq, key=LatencyKey): the first element with the least key
MinByLatency(seq) ==
    seq[CHOOSE i \in 1..Len(seq) :
            /\ \A j \in 1..Len(seq) : LatencyKey(seq[i]) <= LatencyKey(seq[j])
            /\ \A j \in 1..(i - 1) : LatencyKey(seq[j]) > LatencyKey(seq[i])]

NoSelection == [provider |-> None, model |-> None, step |-> 4]

\* PreferredStep without the test of status.available
PreferredStepIgnoresAvailable(ps, preferred) ==
    LET i == StatusIndex(ps, preferred) IN
    IF preferred # None /\ i # 0 /\ ps[i].models # << >>
    THEN [provider |-> preferred,
          model |-> ps[i].models[NextRecommended(ps[i].models, 1)].id,
          step |-> 1]
    ELSE NoSelection

\* lines 247-256: the preferred provider, when it is available with a model
PreferredStep(ps, preferred) ==
    LET i == StatusIndex(ps, preferred) IN
    IF preferred # None /\ i # 0 /\ ps[i].available /\ ps[i].models # << >>
    THEN [provider |-> preferred,
          model |-> ps[i].models[NextRecommended(ps[i].models, 1)].id,
          step |-> 1]
    ELSE NoSelection

\* lines 258-272: the fastest available provider of the current mode
ModeStep(ps, mode) ==
    LET mode_filter == IF mode = "local" THEN "local"
                       ELSE IF mode = "online" THEN "online" ELSE None
        available_providers == get_available_providers(ps, mode_filter)
    IN  IF available_providers = << >> THEN NoSelection
        ELSE LET best_provider == MinByLatency(available_providers)
                 m == NextRecommended(best_provider.models,
                          IF best_provider.models # << >> THEN 1 ELSE 0)
             IN  IF m = 0 THEN NoSelection
                 ELSE [provider |-> best_provider.name,
                       model |-> best_provider.models[m].id, step |-> 2]

\* lines 274-284: any available provider with a model, in dict order
FallbackStep(ps) ==
    LET ok == SelectSeq(ps, LAMBDA s : s.available /\ s.models # << >>) IN
    IF ok = << >> THEN NoSelection
    ELSE [provider |-> ok[1].name,
          model |-> ok[1].models[NextRecommended(ok[1].models, 1)].id,
          step |-> 3]

select_best_provider(ps, mode, preferred) ==
    IF PreferredStep(ps, preferred).step = 1 THEN PreferredStep(ps, preferred)
    ELSE IF ModeStep(ps, mode).step = 2 THEN ModeStep(ps, mode)
    ELSE FallbackStep(ps)

\* generate_response, lines 311-357, up to the dispatch: the outcome is the
\* exception the call ends with, or the provider the request is sent to.
generate_response(provs, provider) ==
    IF provider = None
    THEN \* provider or self.default_provider: the attribute is never set
         [outcome |-> "AttributeError", provider |-> None]
    ELSE IF provider \notin provs /\ provs = {}
    THEN [outcome |-> "RuntimeError: No LLM providers available", provider |-> None]
    ELSE LET list == SelectSeq(ModelProvider, LAMBDA p : p \in provs)
             selected_provider == IF provider \in provs THEN provider ELSE list[1]
         IN  IF "models" \notin ProviderEntryKeys
             THEN [outcome |-> "KeyError", provider |-> selected_provider]
             ELSE [outcome |-> "dispatched", provider |-> selected_provider]

LLMInit ==
    /\ providers \in SUBSET ProviderNames
    /\ provider_status = << >>
    /\ current_mode \in AiModes
    /\ sweep_todo = << >>
    /\ llm_result = [op |-> "none"]

\* the LLM service when another subsystem is being checked
LLMIdle ==
    /\ providers = {}
    /\ provider_status = << >>
    /\ current_mode = "local"
    /\ sweep_todo = << >>
    /\ llm_result = [op |-> "none"]

\* _check_all_providers_status is entered (initialize, or on demand)
StartSweep ==
    /\ sweep_todo = << >>
    /\ providers # {}
    /\ sweep_todo' = ProvidersList
    /\ llm_result' = [op |-> "sweep_start"]
    /\ UNCHANGED <<providers, provider_status, current_mode>>

\* what the request of a probe does: it tells the provider is there, it
\* tells it is not (another status code, no model listed), or it raises
ProbeOutcomes == {"healthy", "unhealthy", "raises"}

\* _check_provider_health, lines 192-224: an exception of the request is
\* caught (line 222) and the probe returns False
_check_provider_health(outcome) == outcome = "healthy"

\* one iteration of the sweep's loop (lines 149-190): the probe of the next
\* provider ends, response_time later
SweepStep ==
    /\ sweep_todo # << >>
    /\ \E outcome \in ProbeOutcomes, response_time \in Latencies :
          /\ provider_status' = DictSet(provider_status,
                CheckedStatus(Head(sweep_todo), _check_provider_health(outcome),
                              response_time))
          /\ llm_result' = [op |-> "sweep_step", provider |-> Head(sweep_todo),
                            probe |-> outcome]
    /\ sweep_todo' = Tail(sweep_todo)
    /\ UNCHANGED <<providers, current_mode>>

Preferreds == ProviderNames \cup {None}

SelectBestProvider ==
    \E preferred \in Preferreds :
        /\ llm_result' = [op |-> "select", preferred |-> preferred,
                          result |-> select_best_provider(provider_status,
                                                          current_mode, preferred)]
        /\ UNCHANGED <<providers, provider_status, current_mode, sweep_todo>>

GenerateResponse ==
    \E provider \in Preferreds :
        /\ llm_result' = [op |-> "generate", provider |-> provider,
                          result |-> generate_response(providers, provider)]
        /\ UNCHANGED <<providers, provider_status, current_mode, sweep_todo>>

LLMNext ==
    \/ StartSweep /\ UNCHANGED <<emb_vars, ws_vars, ext_vars>>
    \/ SweepStep /\ UNCHANGED <<emb_vars, ws_vars, ext_vars>>
    \/ SelectBestProvider /\ UNCHANGED <<emb_vars, ws_vars, ext_vars>>
    \/ GenerateResponse /\ UNCHANGED <<emb_vars, ws_vars, ext_vars>>

vars == <<llm_vars, emb_vars, ws_vars, ext_vars>>

(***************************************************************************)
(* EmbeddingService                                                        *)
(***************************************************************************)
\* Three CodeChunks: chunk A and chunk B are the same function body in two
\* files (different id and file_path), chunk C is another function.
ChunkA ==
    [id |-> "a.py:1:3:function", content |-> "def f(): return 1",
     chunk_type |-> "function", language |-> "python", file_path |-> "a.py",
     function_name |-> "f", class_name |-> None, module_name |-> None,
     docstring |-> None, context |-> None]

ChunkB == [ChunkA EXCEPT !.id = "b.py:1:3:function", !.file_path = "b.py"]

ChunkC ==
    [id |-> "a.py:5:9:function", content |-> "def g(x): return x",
     chunk_type |-> "function", language |-> "python", file_path |-> "a.py",
     function_name |-> "g", class_name |-> None, module_name |-> None,
     docstring |-> "doubles", context |-> "# helper"]

CodeChunks == {ChunkA, ChunkB, ChunkC}

Queries == {"where is f", "what does g do"}

\* bounds of the embedding specification
MaxChunksPerCall == 2

\* the chunk lists passed to generate_embeddings: no chunk id twice (the ids
\* of one parse pass, or of several files, are distinct)
\* batch_size of generate_embeddings
batch_size == 32

\* one more chunk than a batch holds: the chunks of a file of equal
\* functions, with ids of their own
ManyChunks ==
    [i \in 1..(batch_size + 1) |->
        [ChunkA EXCEPT !.id = "many.py:" \o ToString(i) \o ":function",
                       !.file_path = "many.py"]]

ChunkLists ==
    { s \in SeqsUpTo(CodeChunks, MaxChunksPerCall) :
        \A i, j \in 1..Len(s) : i # j => s[i].id # s[j].id }
    \cup {ManyChunks}

MaxEmbCalls == 3

\* "\n".join(parts) of _create_embedding_text, kept as the sequence of parts
create_embedding_text(chunk) ==
    << <<"Language:", chunk.language>> >>
    \o (IF chunk.function_name # None
        THEN << <<"Function:", chunk.function_name>> >> ELSE << >>)
    \o (IF chunk.class_name # None
        THEN << <<"Class:", chunk.class_name>> >> ELSE << >>)
    \o (IF chunk.module_name # None
        THEN << <<"Module:", chunk.module_name>> >> ELSE << >>)
    \o << <<"Type:", chunk.chunk_type>> >>
    \o << <<"Code:">>, <<chunk.content>> >>
    \o (IF chunk.docstring # None
        THEN << <<"Documentation:">>, <<chunk.docstring>> >> ELSE << >>)
    \o (IF chunk.context # None
        THEN << <<"Context:">>, <<chunk.context>> >> ELSE << >>)

\* a query is embedded as it is
QueryText(query) == << <<query>> >>

\* hashlib.md5(text).hexdigest(): one digest per text (collisions left out)
get_text_hash(text) == [md5 |-> text]

TextHashes ==
    { get_text_hash(create_embedding_text(c)) : c \in CodeChunks }
    \cup { get_text_hash(QueryText(q)) : q \in Queries }

\* The vector model.encode gives for a text: the n-th encoding of the same
\* text is a value of its own (floating point results of two runs of the
\* model are not taken to be bit-identical).
Encode(text_hash, n) == [of |-> text_hash, run |-> n]

\* a cache that stores nothing
CachePutNothing(cache, key, value) == cache

\* dict[key] = value
CachePut(cache, key, value) ==
    [k \in DOMAIN cache \cup {key} |-> IF k = key THEN value ELSE cache[k]]

\* lines 106-116: the (chunk.id, cached vector) pairs of the cache hits
CachedEmbeddings(chunks, cache) ==
    LET hit(i) == get_text_hash(create_embedding_text(chunks[i])) \in DOMAIN cache
        idx == SelectSeq([i \in 1..Len(chunks) |-> i], hit)
    IN  [k \in 1..Len(idx) |->
            <<chunks[idx[k]].id,
              cache[get_text_hash(create_embedding_text(chunks[idx[k]]))]>>]

\* lines 106-116: chunk_ids, the (chunk.id, text_hash) pairs of the misses,
\* one per element of texts_to_embed
ChunkIds(chunks, cache) ==
    LET miss(i) == get_text_hash(create_embedding_text(chunks[i])) \notin DOMAIN cache
        idx == SelectSeq([i \in 1..Len(chunks) |-> i], miss)
    IN  [k \in 1..Len(idx) |->
            <<chunks[idx[k]].id, get_text_hash(create_embedding_text(chunks[idx[k]]))>>]

\* how many of the first n entries of chunk_ids have text hash h
Occurrences(chunk_ids, n, h) ==
    Cardinality({ k \in 1..n : chunk_ids[k][2] = h })

\* lines 128-136: all_embeddings, one vector per text sent to the model
AllEmbeddings(chunk_ids, comp) ==
    [k \in 1..Len(chunk_ids) |->
        Encode(chunk_ids[k][2], comp[chunk_ids[k][2]] + Occurrences(chunk_ids, k, chunk_ids[k][2]))]

\* the model's encodings counted after the first n texts were encoded
ComputedAfter(chunk_ids, n, comp) ==
    [h \in DOMAIN comp |-> comp[h] + Occurrences(chunk_ids, n, h)]

RECURSIVE CacheAll(_, _, _, _)
\* lines 139-142: self._embedding_cache[text_hash] = embedding, in zip order
CacheAll(cache, chunk_ids, embeddings, k) ==
    IF k > Len(chunk_ids) THEN cache
    ELSE CacheAll(CachePut(cache, chunk_ids[k][2], embeddings[k]),
                  chunk_ids, embeddings, k + 1)

\* lines 139-142: new_embeddings
NewEmbeddings(chunk_ids, embeddings) ==
    [k \in 1..Len(chunk_ids) |-> <<chunk_ids[k][1], embeddings[k]>>]

\* line 149: all_embeddings = cached_embeddings + new_embeddings
CombineEmbeddings(cached_embeddings, new_embeddings) ==
    cached_embeddings \o new_embeddings

\* number of batches of the loop of line 128
NumBatches(n) == (n + batch_size - 1) \div batch_size

Min(a, b) == IF a < b THEN a ELSE b

EmbInit ==
    /\ model = None
    /\ embedding_cache = << >>
    /\ cache_file = << >>
    /\ computed = [h \in TextHashes |-> 0]
    /\ emb_calls = 0
    /\ emb_result = [op |-> "none"]

EmbIdle == EmbInit

\* initialize(): loads the model, then _load_cache (a cache file that cannot
\* be read starts the cache empty)
EmbInitialize ==
    /\ model = None
    /\ model' = "loaded"
    /\ \E readable \in BOOLEAN :
          embedding_cache' = IF readable THEN cache_file ELSE << >>
    /\ emb_result' = [op |-> "initialize"]
    /\ UNCHANGED <<cache_file, computed, emb_calls>>

\* generate_embeddings(chunks) before initialize(): line 92
GenerateEmbeddingsNoModel ==
    /\ model = None
    /\ emb_calls < MaxEmbCalls
    /\ \E chunks \in ChunkLists :
          emb_result' = [op |-> "embed", chunks |-> chunks, status |-> "RuntimeError",
                         cache_before |-> embedding_cache]
    /\ emb_calls' = emb_calls + 1
    /\ UNCHANGED <<model, embedding_cache, cache_file, computed>>

\* generate_embeddings(chunks), every batch encoded; _save_cache may fail,
\* which is logged and not raised
GenerateEmbeddings ==
    /\ model # None
    /\ emb_calls < MaxEmbCalls
    /\ \E chunks \in ChunkLists, saved \in BOOLEAN :
          LET chunk_ids == ChunkIds(chunks, embedding_cache)
              all_embeddings == AllEmbeddings(chunk_ids, computed)
              new_embeddings == NewEmbeddings(chunk_ids, all_embeddings)
              result == IF chunks = << >> THEN << >>
                        ELSE CombineEmbeddings(
                                CachedEmbeddings(chunks, embedding_cache), new_embeddings)
          IN  /\ embedding_cache' = CacheAll(embedding_cache, chunk_ids, all_embeddings, 1)
              /\ computed' = ComputedAfter(chunk_ids, Len(chunk_ids), computed)
              /\ cache_file' = IF Len(new_embeddings) > 0 /\ saved
                               THEN embedding_cache' ELSE cache_file
              /\ emb_result' = [op |-> "embed", chunks |-> chunks, status |-> "ok",
                                value |-> result, cache_before |-> embedding_cache]
    /\ emb_calls' = emb_calls + 1
    /\ UNCHANGED model

\* an encode failure that keeps the vectors of the batches encoded before it
GenerateEmbeddingsEncodeFailsKeepsBatches ==
    /\ model # None
    /\ emb_calls < MaxEmbCalls
    /\ \E chunks \in ChunkLists :
          LET chunk_ids == ChunkIds(chunks, embedding_cache) IN
          /\ chunk_ids # << >>
          /\ \E failed \in 1..NumBatches(Len(chunk_ids)) :
                LET n == Min((failed - 1) * batch_size, Len(chunk_ids)) IN
                /\ computed' = ComputedAfter(chunk_ids, n, computed)
                /\ embedding_cache' =
                      CacheAll(embedding_cache, SubSeq(chunk_ids, 1, n),
                               AllEmbeddings(chunk_ids, computed), 1)
          /\ emb_result' = [op |-> "embed", chunks |-> chunks, status |-> "Exception",
                            cache_before |-> embedding_cache]
    /\ emb_calls' = emb_calls + 1
    /\ UNCHANGED <<model, cache_file>>

\* generate_embeddings(chunks) where model.encode raises on batch number
\* failed: the batches before it were encoded, nothing is cached (line 144)
GenerateEmbeddingsEncodeFails ==
    /\ model # None
    /\ emb_calls < MaxEmbCalls
    /\ \E chunks \in ChunkLists :
          LET chunk_ids == ChunkIds(chunks, embedding_cache) IN
          /\ chunk_ids # << >>
          /\ \E failed \in 1..NumBatches(Len(chunk_ids)) :
                computed' = ComputedAfter(chunk_ids,
                                Min((failed - 1) * batch_size, Len(chunk_ids)), computed)
          /\ emb_result' = [op |-> "embed", chunks |-> chunks, status |-> "Exception",
                            cache_before |-> embedding_cache]
    /\ emb_calls' = emb_calls + 1
    /\ UNCHANGED <<model, embedding_cache, cache_file>>

\* generate_query_embedding(query), lines 160-189
GenerateQueryEmbedding ==
    /\ emb_calls < MaxEmbCalls
    /\ \E query \in Queries, encode_ok \in BOOLEAN :
          LET query_hash == get_text_hash(QueryText(query))
              embedding == Encode(query_hash, computed[query_hash] + 1)
          IN  IF model = None
              THEN /\ emb_result' = [op |-> "embed_query", query |-> query,
                                     status |-> "RuntimeError",
                                     cache_before |-> embedding_cache]
                   /\ UNCHANGED <<embedding_cache, computed>>
              ELSE IF query_hash \in DOMAIN embedding_cache
              THEN /\ emb_result' = [op |-> "embed_query", query |-> query,
                                     status |-> "ok", hit |-> TRUE,
                                     value |-> embedding_cache[query_hash],
                                     cache_before |-> embedding_cache]
                   /\ UNCHANGED <<embedding_cache, computed>>
              ELSE IF encode_ok
              THEN /\ embedding_cache' = CachePut(embedding_cache, query_hash, embedding)
                   /\ computed' = [computed EXCEPT ![query_hash] = @ + 1]
                   /\ emb_result' = [op |-> "embed_query", query |-> query,
                                     status |-> "ok", hit |-> FALSE, value |-> embedding,
                                     cache_before |-> embedding_cache]
              ELSE /\ emb_result' = [op |-> "embed_query", query |-> query,
                                     status |-> "Exception",
                                     cache_before |-> embedding_cache]
                   /\ UNCHANGED <<embedding_cache, computed>>
    /\ emb_calls' = emb_calls + 1
    /\ UNCHANGED <<model, cache_file>>

EmbNext ==
    \/ EmbInitialize /\ UNCHANGED <<llm_vars, ws_vars, ext_vars>>
    \/ GenerateEmbeddingsNoModel /\ UNCHANGED <<llm_vars, ws_vars, ext_vars>>
    \/ GenerateEmbeddings /\ UNCHANGED <<llm_vars, ws_vars, ext_vars>>
    \/ GenerateEmbeddingsEncodeFails /\ UNCHANGED <<llm_vars, ws_vars, ext_vars>>
    \/ GenerateQueryEmbedding /\ UNCHANGED <<llm_vars, ws_vars, ext_vars>>


(***************************************************************************)
(* QdrantVectorStore (indexer/vector_store/qdrant_client.py)               *)
(*                                                                         *)
(* The Qdrant server is outside the repository.  What the model takes from *)
(* it: upsert writes each point under its id, delete removes the points    *)
(* whose payload matches the filter, search returns points of the          *)
(* collection; a call raises when the server cannot be reached (and may    *)
(* raise or end with a status other than COMPLETED when it can).           *)
(***************************************************************************)
\* a later version of chunk A: same file and line range, new content
ChunkA2 == [ChunkA EXCEPT !.content = "def f(): return 2"]

FilePaths == {"a.py", "b.py"}

\* bounds of the vector store specification
MaxStoreCalls == 3

MaxHits == 1

\* batch_size of store_chunks (line 198)
store_batch_size == 100

\* the embedding passed along with a chunk
Embedding(chunk) == Encode(get_text_hash(create_embedding_text(chunk)), 1)

WithEmbeddings(chunks) == [i \in 1..Len(chunks) |-> <<chunks[i], Embedding(chunks[i])>>]

\* the chunks_with_embeddings lists passed to store_chunks: nothing, the
\* chunks of a.py, the chunks of a.py after an edit, the chunks of b.py
ChunksWithEmbeddings ==
    { WithEmbeddings(chunks) :
        chunks \in { << >>, <<ChunkA, ChunkC>>, <<ChunkA2>>, <<ChunkB>> } }

\* what the collection holds when the program starts: nothing, or what an
\* earlier run stored for a.py and b.py
EarlierRuns == { << >>, <<ChunkA, ChunkC, ChunkB>> }

\* lines 169-195: the points made for the first n pairs; every point gets a
\* uuid4 of its own as id
PointStructs(chunks_with_embeddings, n, uuid) ==
    { [id |-> uuid + i,
       vector |-> chunks_with_embeddings[i][2],
       payload |-> [chunk_id |-> chunks_with_embeddings[i][1].id,
                    content |-> chunks_with_embeddings[i][1].content,
                    language |-> chunks_with_embeddings[i][1].language,
                    file_path |-> chunks_with_embeddings[i][1].file_path]] :
        i \in 1..n }

\* client.upsert: a point replaces the point that has its id
Upsert(collection, batch) ==
    { p \in collection : \A q \in batch : q.id # p.id } \cup batch

\* a delete that removes nothing
DeleteMatchingNothing(collection, file_path) == collection

\* client.delete with the file_path filter of lines 316-323
DeleteMatching(collection, file_path) ==
    { p \in collection : p.payload.file_path # file_path }

\* number of batches of the loop of line 199
NumStoreBatches(n) == (n + store_batch_size - 1) \div store_batch_size

\* the callers that re-index files concurrently (two indexer processes, or
\* two tasks of one)
Indexers == {"i1", "i2"}

\* re-indexings a caller may still start
MaxReindex == 1

\* a caller that is not re-indexing a file
NotIndexing(left) ==
    [pc |-> "idle", file_path |-> None, chunks_with_embeddings |-> << >>,
     left |-> left]

\* an entry of the call log
StoreCall(op, chunks_with_embeddings, file_path, reachable, status, value, hits) ==
    [op |-> op, chunks_with_embeddings |-> chunks_with_embeddings,
     file_path |-> file_path, reachable |-> reachable, status |-> status,
     value |-> value, hits |-> hits, points_before |-> points]

\* the state after QdrantVectorStore.__init__ (lines 45-51)
StoreInit ==
    /\ client = None
    /\ collection_exists = FALSE
    /\ \E chunks \in EarlierRuns :
          /\ points = PointStructs(WithEmbeddings(chunks), Len(chunks), 0)
          /\ next_uuid = Len(chunks)
    /\ store_log = << >>
    /\ reindex = [r \in Indexers |-> NotIndexing(MaxReindex)]

StoreIdle ==
    /\ client = None
    /\ collection_exists = FALSE
    /\ points = {}
    /\ next_uuid = 0
    /\ store_log = << >>
    /\ reindex = [r \in Indexers |-> NotIndexing(0)]

\* what a call of the client does: the server cannot be reached and the
\* call raises; or it can, and the call completes, raises, or ends with a
\* status other than COMPLETED
ServerOutcomes ==
    { [reachable |-> FALSE, outcome |-> "raises"] }
    \cup [reachable : {TRUE}, outcome : {"completed", "raises", "acknowledged"}]

\* the calls made so far, initialize() apart
DataCalls == Cardinality({ i \in 1..Len(store_log) : store_log[i].op # "initialize" })

\* initialize(), lines 55-76 (and _ensure_collection_exists): the client
\* object is made, then get_collections() tests the connection
StoreInitialize ==
    /\ client = None
    /\ client' = "QdrantClient"
    /\ \E reachable \in BOOLEAN :
          /\ collection_exists' = reachable
          /\ store_log' = Append(store_log,
                StoreCall("initialize", << >>, None, reachable,
                          IF reachable THEN "ok" ELSE "Exception", None, {}))
    /\ UNCHANGED <<points, next_uuid, reindex>>

\* the guard of lines 156, 238 and 306
NotInitialized == client = None \/ ~collection_exists

\* store_chunks(chunks_with_embeddings), lines 146-217.  The batches before
\* batch number `failed` are upserted (failed = 0: all of them).
store_chunks(cwe, server) ==
    IF NotInitialized
    THEN /\ store_log' = Append(store_log,
               StoreCall("store_chunks", cwe, None, server.reachable,
                         "RuntimeError", None, {}))
         /\ UNCHANGED <<points, next_uuid>>
    ELSE IF cwe = << >>
    THEN /\ store_log' = Append(store_log,
               StoreCall("store_chunks", cwe, None, server.reachable,
                         "ok", "True", {}))
         /\ UNCHANGED <<points, next_uuid>>
    ELSE \E failed \in (IF server.outcome = "completed"
                        THEN {0}
                        ELSE IF server.reachable
                        THEN 1..NumStoreBatches(Len(cwe))
                        ELSE {1}) :
            LET stored == IF failed = 0 THEN Len(cwe)
                          ELSE (failed - 1) * store_batch_size
            IN  /\ points' = Upsert(points, PointStructs(cwe, stored, next_uuid))
                /\ next_uuid' = next_uuid + Len(cwe)
                /\ store_log' = Append(store_log,
                      StoreCall("store_chunks", cwe, None, server.reachable,
                                "ok", IF failed = 0 THEN "True" ELSE "False",
                                {}))

StoreChunksCall ==
    /\ DataCalls < MaxStoreCalls
    /\ \E cwe \in ChunksWithEmbeddings, server \in ServerOutcomes :
          store_chunks(cwe, server)
    /\ UNCHANGED <<client, collection_exists, reindex>>

\* the filters argument of search_similar: absent (None), or a dict from
\* field to a value or a list of values, its items in the order of the dict
NoFilters == [given |-> FALSE, items |-> << >>]

FiltersOf(items) == [given |-> TRUE, items |-> items]

OneValue(field, value) == [field |-> field, is_list |-> FALSE, values |-> <<value>>]

ListOf(field, values) == [field |-> field, is_list |-> TRUE, values |-> values]

\* the filters the callers pass: none, an empty dict, a field with an empty
\* list, two languages, a language or else a file, two files
SearchFilters ==
    { NoFilters,
      FiltersOf(<< >>),
      FiltersOf(<<ListOf("language", << >>)>>),
      FiltersOf(<<ListOf("language", <<"go", "python">>)>>),
      FiltersOf(<<ListOf("language", <<"go">>), OneValue("file_path", "b.py")>>),
      FiltersOf(<<ListOf("file_path", <<"a.py", "b.py">>)>>) }

\* the conditions made for one item of the dict (lines 250-262)
ItemConditions(item) ==
    [i \in 1..Len(item.values) |-> [key |-> item.field, value |-> item.values[i]]]

RECURSIVE Conditions(_)
\* the loop of lines 249-262 over filters.items()
Conditions(items) ==
    IF items = << >> THEN << >>
    ELSE ItemConditions(Head(items)) \o Conditions(Tail(items))

\* FieldCondition(key, match=Match(value)) holds of a point
Holds(condition, point) == point.payload[condition.key] = condition.value

\* Filter(should=conditions) of line 265: the points of which at least one
\* condition holds; filter_conditions None (lines 246, 264) lets all pass
Should(conditions, collection) ==
    IF conditions = << >> THEN collection
    ELSE { p \in collection : \E i \in DOMAIN conditions : Holds(conditions[i], p) }

\* what Match(value=v) of qdrant_client.http.models does when it is
\* called: it gives the match on the value, or, Match being the Union of
\* the match classes in the library, the call raises TypeError
MatchBehaviours == {"MatchValue", "TypeError"}

\* an entry of the call log for search_similar: the filters passed, what
\* made the call return the empty list of line 294 (nothing, the exception
\* of Match, an exception of client.search), and the points that passed
\* the filter
SearchCall(filters, reachable, status, failure, passed, hits) ==
    [op |-> "search_similar", chunks_with_embeddings |-> << >>,
     file_path |-> None, reachable |-> reachable, status |-> status,
     value |-> IF status = "ok" THEN "list" ELSE None, hits |-> hits,
     points_before |-> points, filters |-> filters, failure |-> failure,
     passed |-> passed]

RECURSIVE UpTo(_, _)
\* the sets of at most n of the points of a collection
UpTo(collection, n) ==
    IF n = 0 THEN { {} }
    ELSE UpTo(collection, n - 1)
            \cup { hits \cup {p} : hits \in UpTo(collection, n - 1), p \in collection }

\* search_similar(query_embedding, limit, score_threshold, filters), lines
\* 219-294: the hits are points that pass the filter, at most `limit` of
\* them (the ones that score above score_threshold)
search_similar(filters, server, match) ==
    LET conditions == IF filters.given THEN Conditions(filters.items) ELSE << >> IN
    IF NotInitialized
    THEN store_log' = Append(store_log,
            SearchCall(filters, server.reachable, "RuntimeError", "none", {}, {}))
    ELSE IF conditions # << >> /\ match = "TypeError"
    THEN store_log' = Append(store_log,
            SearchCall(filters, server.reachable, "ok", "TypeError", {}, {}))
    ELSE IF server.outcome = "raises"
    THEN store_log' = Append(store_log,
            SearchCall(filters, server.reachable, "ok", "client", {}, {}))
    ELSE \E hits \in UpTo(Should(conditions, points), MaxHits) :
            store_log' = Append(store_log,
                  SearchCall(filters, server.reachable, "ok", "none",
                             Should(conditions, points), hits))

SearchSimilarCall ==
    /\ DataCalls < MaxStoreCalls
    /\ \E server \in { o \in ServerOutcomes : o.outcome # "acknowledged" } :
          search_similar(NoFilters, server, "MatchValue")
    /\ UNCHANGED <<client, collection_exists, points, next_uuid, reindex>>

\* delete_by_file_path(file_path), lines 296-336
delete_by_file_path(file_path, server) ==
    IF NotInitialized
    THEN /\ store_log' = Append(store_log,
               StoreCall("delete_by_file_path", << >>, file_path,
                         server.reachable, "RuntimeError", None, {}))
         /\ UNCHANGED points
    ELSE /\ points' = IF server.outcome = "completed"
                      THEN DeleteMatching(points, file_path)
                      ELSE points
         /\ store_log' = Append(store_log,
               StoreCall("delete_by_file_path", << >>, file_path,
                         server.reachable, "ok",
                         IF server.outcome = "completed"
                         THEN "True" ELSE "False", {}))

DeleteByFilePathCall ==
    /\ DataCalls < MaxStoreCalls
    /\ \E file_path \in FilePaths, server \in ServerOutcomes :
          delete_by_file_path(file_path, server)
    /\ UNCHANGED <<client, collection_exists, next_uuid, reindex>>

\* searches with filters that the callers make
MaxSearches == 1

\* a caller awaits search_similar with filters
SearchFiltered ==
    /\ DataCalls < MaxStoreCalls
    /\ Cardinality({ i \in DOMAIN store_log : store_log[i].op = "search_similar" })
          < MaxSearches
    /\ \E filters \in SearchFilters, match \in MatchBehaviours,
          server \in { o \in ServerOutcomes : o.outcome # "acknowledged" } :
          search_similar(filters, server, match)
    /\ UNCHANGED <<client, collection_exists, points, next_uuid, reindex>>

\* chunks are stored and the collection is searched with filters
SearchNext ==
    \/ StoreInitialize /\ UNCHANGED <<llm_vars, emb_vars, ws_vars, rag_vars, par_vars>>
    \/ StoreChunksCall /\ UNCHANGED <<llm_vars, emb_vars, ws_vars, rag_vars, par_vars>>
    \/ SearchFiltered /\ UNCHANGED <<llm_vars, emb_vars, ws_vars, rag_vars, par_vars>>

StoreNext ==
    \/ StoreInitialize /\ UNCHANGED <<llm_vars, emb_vars, ws_vars, rag_vars, par_vars>>
    \/ StoreChunksCall /\ UNCHANGED <<llm_vars, emb_vars, ws_vars, rag_vars, par_vars>>
    \/ SearchSimilarCall /\ UNCHANGED <<llm_vars, emb_vars, ws_vars, rag_vars, par_vars>>
    \/ DeleteByFilePathCall /\ UNCHANGED <<llm_vars, emb_vars, ws_vars, rag_vars, par_vars>>

\* the chunks of a file of more functions than a batch of store_chunks
\* holds
LargeFile ==
    [i \in 1..(store_batch_size + 1) |->
        [ChunkA EXCEPT !.id = "a.py:" \o ToString(i) \o ":function",
                       !.content = "def f" \o ToString(i) \o "(): return 1"]]

\* the new chunks of a changed file
ChunksOfFile(file_path) ==
    { cwe \in ChunksWithEmbeddings \cup {WithEmbeddings(LargeFile)} :
        /\ cwe # << >>
        /\ \A i \in 1..Len(cwe) : cwe[i][1].file_path = file_path }

\* what the last call of the log returned
LastReturned(log) == log[Len(log)].value

\* A caller re-indexes a changed file: it awaits delete_by_file_path
\* (lines 296-336) for the path and, when that returned True, goes on to
\* store_chunks.  Nothing in QdrantVectorStore holds a lock in between.
ReindexDeletes(r) ==
    /\ reindex[r].pc = "idle"
    /\ reindex[r].left > 0
    /\ \E file_path \in FilePaths, server \in ServerOutcomes :
          /\ delete_by_file_path(file_path, server)
          /\ \E cwe \in ChunksOfFile(file_path) :
                reindex' = [reindex EXCEPT ![r] =
                    IF LastReturned(store_log') = "True"
                    THEN [pc |-> "deleted", file_path |-> file_path,
                          chunks_with_embeddings |-> cwe, left |-> @.left - 1]
                    ELSE NotIndexing(@.left - 1)]
    /\ UNCHANGED <<client, collection_exists, next_uuid>>

\* the caller awaits store_chunks (lines 146-217) with the new chunks
ReindexStores(r) ==
    /\ reindex[r].pc = "deleted"
    /\ \E server \in ServerOutcomes :
          store_chunks(reindex[r].chunks_with_embeddings, server)
    /\ reindex' = [reindex EXCEPT ![r] = NotIndexing(@.left)]
    /\ UNCHANGED <<client, collection_exists>>

ReindexNext ==
    \/ StoreInitialize /\ UNCHANGED <<llm_vars, emb_vars, ws_vars, rag_vars, par_vars>>
    \/ (\E r \in Indexers : ReindexDeletes(r))
          /\ UNCHANGED <<llm_vars, emb_vars, ws_vars, rag_vars, par_vars>>
    \/ (\E r \in Indexers : ReindexStores(r))
          /\ UNCHANGED <<llm_vars, emb_vars, ws_vars, rag_vars, par_vars>>

(***************************************************************************)
(* RAGService (server/app/services/rag_service.py)                         *)
(*                                                                         *)
(* The module defines its own EmbeddingService and QdrantVectorStore       *)
(* (lines 20-46, "Mock classes for development"; the imports of the        *)
(* indexer's classes are commented out, lines 16-17), and these are the    *)
(* classes RAGService uses.                                                *)
(***************************************************************************)
\* the methods an object has: None has none, the classes of lines 20-46
\* have the ones they define
Methods(object) ==
    CASE object = "EmbeddingService" -> {"embed_text", "embed_batch"}
      [] object = "QdrantVectorStore" -> {"search", "add_documents"}
      [] object = "LLMService" -> {"generate_response", "health_check", "cleanup"}
      [] OTHER -> {}

\* bound of the RAG specification
MaxRagCalls == 3

RagTexts == {"where is f", "def f(): return 1"}

\* the state after RAGService.__init__ (lines 76-79)
RagInit ==
    /\ embedding_service = None
    /\ vector_store = None
    /\ llm_service = None
    /\ rag_log = << >>

RagIdle == RagInit

\* an entry of the call log: `failed` names the step of the pipeline that
\* raised (None: no step did)
RagCall(op, text, failed, status, value) ==
    [op |-> op, text |-> text, failed |-> failed, status |-> status, value |-> value]

\* the steps of a pipeline in order, with the object and the method called;
\* the first step whose object lacks the method raises AttributeError
Pipeline(search) ==
    << [step |-> "embedding", object |-> embedding_service,
        method |-> "generate_query_embedding"] >>
    \o (IF search
        THEN << [step |-> "retrieval", object |-> vector_store,
                 method |-> "search_similar"] >>
        ELSE << >>)

GenerationStep ==
    [step |-> "generation", object |-> llm_service, method |-> "generate_response"]

\* the first step of the sequence that raises, None if none does
FirstFailure(steps) ==
    IF \E i \in DOMAIN steps : steps[i].method \notin Methods(steps[i].object)
    THEN steps[CHOOSE i \in DOMAIN steps :
                  /\ steps[i].method \notin Methods(steps[i].object)
                  /\ \A j \in 1..(i - 1) : steps[j].method \in Methods(steps[j].object)].step
    ELSE None

\* initialize(), lines 81-109: the embedding service is made, its
\* initialize() is called and the exception is raised again
RagInitialize ==
    /\ Len(rag_log) < MaxRagCalls
    /\ embedding_service' = "EmbeddingService"
    /\ IF "initialize" \in Methods("EmbeddingService")
       THEN /\ vector_store' = "QdrantVectorStore"
            /\ llm_service' = IF "initialize" \in Methods("QdrantVectorStore")
                              THEN "LLMService" ELSE llm_service
            /\ rag_log' = Append(rag_log,
                  IF "initialize" \in Methods("QdrantVectorStore")
                  THEN RagCall("initialize", None, None, "ok", None)
                  ELSE RagCall("initialize", None, "retrieval", "AttributeError", None))
       ELSE /\ rag_log' = Append(rag_log,
                  RagCall("initialize", None, "embedding", "AttributeError", None))
            /\ UNCHANGED <<vector_store, llm_service>>

\* the body of query_codebase (lines 138-196), explain_code (221-263) and
\* generate_code (290-332): embedding, retrieval (explain_code: when
\* include_dependencies), generation; `except Exception: raise`
RagAnswer(op, text, search) ==
    /\ Len(rag_log) < MaxRagCalls
    /\ LET failed == FirstFailure(Pipeline(search) \o <<GenerationStep>>)
       IN  rag_log' = Append(rag_log,
              IF failed # None
              THEN RagCall(op, text, failed, "AttributeError", None)
              ELSE RagCall(op, text, None, "ok", "RAGResult"))
    /\ UNCHANGED <<embedding_service, vector_store, llm_service>>

query_codebase == \E query \in RagTexts : RagAnswer("query_codebase", query, TRUE)

explain_code ==
    \E code \in RagTexts, include_dependencies \in BOOLEAN :
        RagAnswer("explain_code", code, include_dependencies)

generate_code == \E prompt \in RagTexts : RagAnswer("generate_code", prompt, TRUE)

\* find_similar_code, lines 334-373: embedding, retrieval;
\* `except Exception: return []`
find_similar_code ==
    /\ Len(rag_log) < MaxRagCalls
    /\ \E code \in RagTexts :
          LET failed == FirstFailure(Pipeline(TRUE))
          IN  rag_log' = Append(rag_log,
                 IF failed # None
                 THEN RagCall("find_similar_code", code, failed, "ok", "[]")
                 ELSE RagCall("find_similar_code", code, None, "ok", "list"))
    /\ UNCHANGED <<embedding_service, vector_store, llm_service>>

RagNext ==
    \/ RagInitialize /\ UNCHANGED <<llm_vars, emb_vars, ws_vars, store_vars, par_vars>>
    \/ query_codebase /\ UNCHANGED <<llm_vars, emb_vars, ws_vars, store_vars, par_vars>>
    \/ explain_code /\ UNCHANGED <<llm_vars, emb_vars, ws_vars, store_vars, par_vars>>
    \/ generate_code /\ UNCHANGED <<llm_vars, emb_vars, ws_vars, store_vars, par_vars>>
    \/ find_similar_code /\ UNCHANGED <<llm_vars, emb_vars, ws_vars, store_vars, par_vars>>

(***************************************************************************)
(* TreeSitterParser (indexer/parsers/tree_sitter_parser.py)                *)
(*                                                                         *)
(* A text is a sequence of characters.  The Tree-sitter library is outside *)
(* the repository: parser.parse raises or gives a tree, and of a tree the  *)
(* model keeps the nodes the _extract_* functions look for, each with its  *)
(* type and its first and last line (start_point[0], end_point[0]).        *)
(***************************************************************************)
NL == "\n"

Chars == {"a", "b", NL}

\* bounds of the parser specification
MaxFileLen == 5

MaxChunkSize == 3

\* the least length of a comment that is kept (line 293)
MeaningfulComment == 20

RECURSIVE Split(_)
\* str.split('\n')
Split(text) ==
    IF \A i \in DOMAIN text : text[i] # NL
    THEN <<text>>
    ELSE LET k == CHOOSE i \in DOMAIN text :
                     text[i] = NL /\ \A j \in 1..(i - 1) : text[j] # NL
         IN  <<SubSeq(text, 1, k - 1)>> \o Split(SubSeq(text, k + 1, Len(text)))

RECURSIVE Join(_)
\* '\n'.join(lines)
Join(lines) ==
    IF lines = << >> THEN << >>
    ELSE IF Len(lines) = 1 THEN lines[1]
    ELSE lines[1] \o <<NL>> \o Join(Tail(lines))

RECURSIVE Strip(_)
\* str.strip(): the white space of the alphabet is the newline
Strip(text) ==
    IF text = << >> THEN text
    ELSE IF text[1] = NL THEN Strip(Tail(text))
    ELSE IF text[Len(text)] = NL THEN Strip(SubSeq(text, 1, Len(text) - 1))
    ELSE text

Max(a, b) == IF a > b THEN a ELSE b

\* lines[a:b] of a list, 0 <= a
Slice(lines, a, b) == SubSeq(lines, a + 1, Min(b, Len(lines)))

\* the files parse_file is given: a path and what is read from it
Files ==
    [file_path : {"a.py", "notes.txt"},
     content : SeqsUpTo(Chars, MaxFileLen)]

\* _detect_language, lines 123-131 (LANGUAGE_CONFIGS: ".py" is python, no
\* language has ".txt")
_detect_language(file_path) ==
    IF file_path = "a.py" THEN "python" ELSE None

NodeTypes == {"function_definition", "class_definition", "import_statement", "comment"}

\* the nodes of the types looked for that a text of these lines may have
Nodes(content) ==
    { [type |-> t, start_point |-> a, end_point |-> b] :
        t \in NodeTypes,
        a \in 0..(Len(Split(content)) - 1),
        b \in 0..(Len(Split(content)) - 1) }

\* no node of the types looked for, one, or two
UnorderedTrees(content) ==
    { << >> } \cup { <<n>> : n \in Nodes(content) }
        \cup { <<n, [n EXCEPT !.type = t]>> : n \in Nodes(content), t \in NodeTypes }

\* the trees parser.parse may give for a text: a node ends on the line
\* where it starts or later, and a second node spans the lines of the first
\* (a node nested in it, or the next statement of the same line as in
\* `import a; import b`)
Trees(content) ==
    { tree \in UnorderedTrees(content) :
        /\ \A i \in DOMAIN tree : tree[i].start_point <= tree[i].end_point
        /\ Len(tree) = 2 =>
              /\ tree[2].start_point = tree[1].start_point
              /\ tree[2].end_point = tree[1].end_point }

ChunkTypeOf(node_type) ==
    CASE node_type = "function_definition" -> "function"
      [] node_type = "class_definition" -> "class"
      [] node_type = "import_statement" -> "import"
      [] node_type = "comment" -> "comment"

\* _create_function_chunk (302-332), _create_class_chunk (334-364),
\* _create_import_chunk (366-392), _create_comment_chunk (394-423).  The
\* id of a chunk is the file path, the two lines and the type; part >= 0 is
\* the "_part_<n>" suffix of a sub-chunk.  complexity_score is kept as the
\* fraction of the score of the whole chunk.
CreateChunk(node, content, file_path, language) ==
    [id |-> [file_path |-> file_path, start_line |-> node.start_point,
             end_line |-> node.end_point, type |-> ChunkTypeOf(node.type),
             part |-> -1],
     content |-> Join(Slice(Split(content), node.start_point, node.end_point + 1)),
     chunk_type |-> ChunkTypeOf(node.type),
     language |-> language,
     file_path |-> file_path,
     line_start |-> node.start_point + 1,
     line_end |-> node.end_point + 1,
     complexity_score |-> [num |-> 1, den |-> 1],
     context |-> [set |-> FALSE, text |-> << >>]]

\* _extract_functions, _extract_classes, _extract_imports, _extract_comments
\* (lines 189-300): the chunks of the nodes of each type in turn; a comment
\* is kept when it has more than 20 characters
ExtractChunks(tree, content, file_path, language) ==
    LET Of(types) == SelectSeq(tree, LAMBDA n : n.type \in types)
        Chunk(n) == CreateChunk(n, content, file_path, language)
        ChunksOf(nodes) == [i \in DOMAIN nodes |-> Chunk(nodes[i])]
    IN  ChunksOf(Of({"function_definition"}))
        \o ChunksOf(Of({"class_definition"}))
        \o ChunksOf(Of({"import_statement"}))
        \o SelectSeq(ChunksOf(Of({"comment"})),
                     LAMBDA c : Len(Strip(c.content)) > MeaningfulComment)

\* a sub-chunk that starts where its chunk starts
SubChunkFromChunkStart(chunk, part, current_content, start_line, num_lines) ==
    [chunk EXCEPT !.id = [chunk.id EXCEPT !.part = part],
                  !.content = Join(current_content),
                  !.line_start = chunk.line_start,
                  !.line_end = chunk.line_start + Len(current_content) - 1,
                  !.complexity_score = [num |-> Len(current_content),
                                        den |-> num_lines]]

\* the CodeChunk of lines 512-524 and 537-549
SubChunk(chunk, part, current_content, start_line, num_lines) ==
    [chunk EXCEPT !.id = [chunk.id EXCEPT !.part = part],
                  !.content = Join(current_content),
                  !.line_start = start_line,
                  !.line_end = start_line + Len(current_content) - 1,
                  !.complexity_score = [num |-> Len(current_content),
                                        den |-> num_lines]]

RECURSIVE SplitLoop(_, _, _, _, _, _, _, _)
\* the loop of lines 507-533 from line number i on, and lines 535-552
SplitLoop(chunk, max_size, lines, i, sub_chunks, current_content, current_size, start_line) ==
    IF i = Len(lines)
    THEN IF current_content # << >>
         THEN Append(sub_chunks,
                     SubChunk(chunk, Len(sub_chunks), current_content,
                              start_line, Len(lines)))
         ELSE sub_chunks
    ELSE LET line == lines[i + 1]
             line_size == Len(line)
         IN  IF current_size + line_size > max_size /\ current_content # << >>
             THEN SplitLoop(chunk, max_size, lines, i + 1,
                            Append(sub_chunks,
                                   SubChunk(chunk, Len(sub_chunks), current_content,
                                            start_line, Len(lines))),
                            <<line>>, line_size, chunk.line_start + i)
             ELSE SplitLoop(chunk, max_size, lines, i + 1, sub_chunks,
                            Append(current_content, line),
                            current_size + line_size, start_line)

\* _split_chunk, lines 498-552
_split_chunk(chunk, max_size) ==
    SplitLoop(chunk, max_size, Split(chunk.content), 0, << >>, << >>, 0,
              chunk.line_start)

RECURSIVE _split_large_chunks(_, _)
\* _split_large_chunks, lines 484-496
_split_large_chunks(chunks, max_size) ==
    IF chunks = << >> THEN << >>
    ELSE (IF Len(Head(chunks).content) <= max_size
          THEN <<Head(chunks)>>
          ELSE _split_chunk(Head(chunks), max_size))
         \o _split_large_chunks(Tail(chunks), max_size)

\* _add_context, lines 554-573
_add_context(chunks, content) ==
    LET lines == Split(content)
        Context(chunk) ==
            LET context_start == Max(0, chunk.line_start - 3)
                context_end == Min(Len(lines), chunk.line_end + 2)
            IN  Slice(lines, context_start, context_start + 2)
                \o Slice(lines, chunk.line_end, context_end)
    IN  [i \in DOMAIN chunks |->
            IF Context(chunks[i]) # << >>
            THEN [chunks[i] EXCEPT !.context =
                     [set |-> TRUE, text |-> Join(Context(chunks[i]))]]
            ELSE chunks[i]]

\* the methods _parse_with_fallback calls that the class defines (it
\* defines none of _extract_functions_regex, _extract_classes_regex,
\* _extract_imports_regex, _split_by_lines)
ParserMethods ==
    {"_detect_language", "_parse_with_tree_sitter", "_parse_with_fallback",
     "_extract_functions", "_extract_classes", "_extract_imports",
     "_extract_comments", "_split_large_chunks", "_split_chunk", "_add_context"}

\* what a call of parse_file gave: the stages it went through, the chunks
\* extracted before splitting, what it returned
ParseResult(stages, extracted, status, chunks) ==
    [stages |-> stages, extracted |-> extracted, status |-> status,
     chunks |-> chunks]

\* _parse_with_fallback, lines 163-187, entered after the given stages:
\* line 171 raises AttributeError, and so does the last resort of line 185,
\* which parse_file catches (lines 119-121)
FallbackResult(stages) ==
    IF "_extract_functions_regex" \in ParserMethods
    THEN ParseResult(Append(stages, "fallback"), << >>, "ok", << >>)
    ELSE IF "_split_by_lines" \in ParserMethods
    THEN ParseResult(stages \o <<"fallback", "last_resort">>, << >>, "ok", << >>)
    ELSE ParseResult(stages \o <<"fallback", "last_resort">>, << >>,
                     "AttributeError", << >>)

NotCalled == ParseResult(<< >>, << >>, "not called", << >>)

\* the state after TreeSitterParser.__init__ (lines 60-87), a parser being
\* loaded for the languages whose library file exists, and the arguments
\* of the call of parse_file to come
ParserInit ==
    /\ parsers \in SUBSET {"python"}
    /\ parse_call \in [file : Files, max_chunk_size : 1..MaxChunkSize]
    /\ parse_result = NotCalled

ParserIdle ==
    /\ parsers = {}
    /\ parse_call = [file |-> [file_path |-> "notes.txt", content |-> << >>],
                     max_chunk_size |-> 1]
    /\ parse_result = NotCalled

\* parse_file(file_path, max_chunk_size), lines 89-121, with
\* _parse_with_tree_sitter (133-161) and _parse_with_fallback (163-187)
parse_file ==
    /\ parse_result = NotCalled
    /\ LET file == parse_call.file
           max_chunk_size == parse_call.max_chunk_size
           language == _detect_language(file.file_path)
       IN  IF language = None \/ Strip(file.content) = << >>
           THEN parse_result' = ParseResult(<< >>, << >>, "ok", << >>)
           ELSE IF language \in parsers
           THEN \/ \E tree \in Trees(file.content) :
                      LET extracted == ExtractChunks(tree, file.content,
                                                     file.file_path, language)
                      IN  parse_result' =
                              ParseResult(<<"tree_sitter">>, extracted, "ok",
                                  _add_context(
                                      _split_large_chunks(extracted, max_chunk_size),
                                      file.content))
                \/ parse_result' = FallbackResult(<<"tree_sitter">>)
           ELSE parse_result' = FallbackResult(<< >>)
    /\ UNCHANGED <<parsers, parse_call>>

ParserNext ==
    \/ parse_file /\ UNCHANGED <<llm_vars, emb_vars, ws_vars, store_vars, rag_vars>>

ExtIdle == StoreIdle /\ RagIdle /\ ParserIdle
(***************************************************************************)
(* WebSocketManager and websocket_chat_endpoint under asyncio              *)
(*                                                                         *)
(* The coroutines are the endpoint coroutines (one per websocket), the     *)
(* asyncio.Task objects made by start_streaming_response and a caller of   *)
(* cleanup_inactive_connections.  The event loop                           *)
(* runs one coroutine at a time (`running`); a coroutine keeps the loop    *)
(* until it suspends at an await on I/O, on the generator or on a task.    *)
(* Each coroutine has a stack of frames, one per call in progress; a frame *)
(* holds the function, the position in it and its local variables.         *)
(* The server is assumed not to cancel the endpoint coroutines.            *)
(***************************************************************************)
Endpoints == {"e1", "e2"}

ClientIds == {"c1", "c2"}

\* the client_id query parameter each client may ask for: the second client
\* may reuse the id of the first.  The clients are interchangeable: e1 is the
\* one that connects first.
RequestedClientIds(e) == IF e = "e1" THEN {"c1"} ELSE ClientIds

\* the task_id values of stream_query messages
TaskIds == {"t1", "t2"}

MaxTasks == 2

MaxChunks == 1

MaxMsgs == 2

MaxLosses == 1

MaxTime == 2

\* the asyncio.Task objects, in the order asyncio.create_task makes them
TaskObjects == <<"k1", "k2", "k3", "k4">>

Tasks == { TaskObjects[i] : i \in 1..MaxTasks }

\* the coroutine that calls cleanup_inactive_connections
Callers == {"sweep"}

Coroutines == Endpoints \cup Tasks \cup Callers

\* class MessageType
MessageType ==
    {"stream_query", "stream_chunk", "stream_complete", "stream_error",
     "stop_generation", "ping", "pong", "status_update", "error"}

\* _setup_handlers: the message types that have a handler
message_handlers ==
    [stream_query |-> "_handle_stream_query",
     stop_generation |-> "_handle_stop_generation",
     ping |-> "_handle_ping"]

StreamTypes == {"stream_chunk", "stream_complete", "stream_error"}

\* What a client can send: text that is not JSON, a JSON message without a
\* type, with a type outside MessageType, with a type that has no handler,
\* or one of the three handled types; stream_query carries a task_id (an
\* absent task_id gets a time-based one, which can repeat as well).
ClientMessages ==
    [type : {"stream_query"}, task_id : TaskIds]
        \cup [type : {"stop_generation", "ping", "bogus", "not_json"},
              task_id : {None}]

NoMessage == [type |-> None, chunk |-> 0]

Frame(fn, pc, client_id, task_id, message) ==
    [fn |-> fn, pc |-> pc, client_id |-> client_id, task_id |-> task_id,
     connection |-> None, task |-> None, inactive_clients |-> {},
     message |-> message]

\* a call of send_message(client_id, message); task_id is the task_id field
\* of a stream message
SendFrame(client_id, task_id, type, chunk) ==
    Frame("send_message", "enter", client_id, task_id,
          [type |-> type, chunk |-> chunk])

\* send_error(client_id, text) only calls send_message with an error message
send_error(client_id) == SendFrame(client_id, None, "error", 0)

CancelFrame(task_id) ==
    Frame("_cancel_streaming_task", "enter", None, task_id, NoMessage)

Top(c) == stack[c][Len(stack[c])]

\* the running coroutine is at position pc of function fn, no exception
At(fn, pc) ==
    /\ running # None
    /\ exc = None
    /\ stack[running] # <<>>
    /\ Top(running).fn = fn
    /\ Top(running).pc = pc

SetTop(f) == [stack EXCEPT ![running] = [@ EXCEPT ![Len(@)] = f]]

Goto(pc) == SetTop([Top(running) EXCEPT !.pc = pc])

\* await callee(...): the caller continues at retpc when the callee returns
CallFrom(retpc, f) ==
    [stack EXCEPT ![running] = Append([@ EXCEPT ![Len(@)].pc = retpc], f)]

Popped == [stack EXCEPT ![running] = SubSeq(@, 1, Len(@) - 1)]

\* handle_message after its handler (line 146) and _handle_stream_query after
\* start_streaming_response (line 345) have nothing left to do but return
ReturnsAtOnce(f) ==
    /\ f.fn \in {"handle_message", "_handle_stream_query"}
    /\ f.pc \in {"return", "except_done"}

RECURSIVE ReturnThrough(_)
ReturnThrough(frames) ==
    IF frames # <<>> /\ ReturnsAtOnce(frames[Len(frames)])
    THEN ReturnThrough(SubSeq(frames, 1, Len(frames) - 1))
    ELSE frames

\* return value: the frame is popped, and so are the callers that return at
\* once (they return None)
Return(value) ==
    LET frames == stack[running]
        left == ReturnThrough(SubSeq(frames, 1, Len(frames) - 1))
    IN /\ stack' = [stack EXCEPT ![running] = left]
       /\ ret' = IF Len(left) = Len(frames) - 1 THEN value ELSE None

\* the running coroutine suspends and gives the event loop back
Suspend(kind, pending, target) ==
    /\ waiting' = [waiting EXCEPT ![running] =
                      [kind |-> kind, pending |-> pending, target |-> target]]
    /\ running' = None
    /\ ret' = None

NotWaiting == [kind |-> "none", pending |-> "ok", target |-> None]

Live(k) == tasks[k].state = "pending"

\* the task registered under task_id, if it is not done
ActiveTask(task_id) ==
    LET task == streaming_tasks[task_id] IN
    IF task # None /\ Live(task) THEN task ELSE None

MustCancel(c) == c \in Tasks /\ tasks[c].must_cancel

\* Task.cancel(): a task suspended on another live task hands the request to
\* that task; otherwise the task is marked and CancelledError is thrown into
\* it at its next step.
RECURSIVE cancel(_, _, _)
cancel(tk, k, seen) ==
    IF tk[k].state # "pending"
    THEN tk
    ELSE IF /\ waiting[k].kind = "task"
            /\ waiting[k].target \notin (seen \cup {k})
            /\ tk[waiting[k].target].state = "pending"
         THEN cancel(tk, waiting[k].target, seen \cup {k})
         ELSE [tk EXCEPT ![k].must_cancel = TRUE]

\* the state after WebSocketManager.__init__ (lines 50-54); `clients` are
\* the websockets whose client will connect and the callers that will call
WSInitWith(clients) ==
    /\ connections = [c \in ClientIds |-> None]
    /\ connection = [e \in Endpoints |->
                        [client_id |-> None, last_activity |-> 0,
                         is_streaming |-> FALSE, current_task_id |-> None]]
    /\ websocket = [e \in Endpoints |->
                       [client_state |-> "CONNECTING",
                        application_state |-> "CONNECTING", lost |-> FALSE]]
    /\ streaming_tasks = [t \in TaskIds |-> None]
    /\ tasks = [k \in Tasks |->
                   [state |-> "none", client_id |-> None, task_id |-> None,
                    must_cancel |-> FALSE, yielded |-> 0, connection |-> None,
                    replaces |-> None]]
    /\ stack = [c \in Coroutines |-> <<>>]
    /\ waiting = [c \in Coroutines |->
                     [kind |-> IF c \in (Endpoints \cup Callers) \ clients
                               THEN "absent" ELSE "unstarted",
                      pending |-> "ok", target |-> None]]
    /\ running = None
    /\ exc = None
    /\ ret = None
    /\ sent = [k \in Tasks |-> <<>>]
    /\ msgs_left = MaxMsgs
    /\ losses_left = MaxLosses
    /\ next_task = 1
    /\ reserved = 0
    /\ now = 0

WSInit == WSInitWith(Endpoints)

WSIdle == WSInit

(***************************************************************************)
(* The clients and the network                                             *)
(***************************************************************************)
\* Task ids are interchangeable: the first stream_query is taken to carry t1,
\* a later one an id already used or the next unused one.
NextTaskIds == IF reserved = 0 THEN {"t1"} ELSE TaskIds

\* A client opens /ws/chat and the handshake ends: websocket_chat_endpoint
\* has called connect, and accept() (line 67) returns or, when the client is
\* gone by then, raises.  Up to here the endpoint has touched no shared state.
ClientConnects(e) ==
    /\ running = None
    /\ waiting[e].kind = "unstarted"
    /\ e = "e2" => waiting["e1"].kind # "unstarted"
    /\ \E client_id \in RequestedClientIds(e) :
          stack' = [stack EXCEPT ![e] =
              << Frame("websocket_chat_endpoint", "connected", client_id, None, NoMessage),
                 [Frame("connect", "accepted", client_id, None, NoMessage)
                     EXCEPT !.connection = e] >>]
    /\ \E accepted \in BOOLEAN :
          /\ exc' = IF accepted THEN None ELSE "Exception"
          /\ websocket' = [websocket EXCEPT ![e] =
                 IF accepted
                 THEN [@ EXCEPT !.client_state = "CONNECTED",
                                !.application_state = "CONNECTED"]
                 ELSE [@ EXCEPT !.lost = TRUE]]
    /\ waiting' = [waiting EXCEPT ![e] = NotWaiting]
    /\ running' = e
    /\ UNCHANGED <<connections, connection, streaming_tasks, tasks, ret, sent,
                   msgs_left, losses_left, next_task, reserved, now>>

\* receive_text() returns a client message: json.loads, then handle_message
\* (line 52), or send_error for text that is not JSON (line 56).  A message
\* the client sent before the link was lost can still arrive.
ClientMessage(e, m) ==
    /\ running = None
    /\ waiting[e].kind = "recv"
    /\ websocket[e].application_state = "CONNECTED"
    /\ msgs_left > 0
    /\ m.type = "stream_query" => reserved < MaxTasks
    /\ m.type = "stream_query" => m.task_id \in NextTaskIds
    /\ msgs_left' = msgs_left - 1
    /\ reserved' = IF m.type = "stream_query" THEN reserved + 1 ELSE reserved
    /\ stack' = [stack EXCEPT ![e] = Append(@,
          IF m.type = "not_json"
          THEN send_error(Top(e).client_id)
          ELSE Frame("handle_message", "enter", Top(e).client_id, m.task_id,
                     [type |-> m.type, chunk |-> 0]))]
    /\ waiting' = [waiting EXCEPT ![e] = NotWaiting]
    /\ running' = e
    /\ UNCHANGED <<connections, connection, websocket, streaming_tasks, tasks,
                   exc, ret, sent, losses_left, next_task, now>>

\* The client goes away: it closes the socket or the network drops
ConnectionLost(e) ==
    /\ running = None
    /\ waiting[e].kind \notin {"unstarted", "absent", "done"}
    /\ ~websocket[e].lost
    /\ losses_left > 0
    /\ losses_left' = losses_left - 1
    /\ websocket' = [websocket EXCEPT ![e].lost = TRUE]
    /\ UNCHANGED <<connections, connection, streaming_tasks, tasks, stack,
                   waiting, running, exc, ret, sent, msgs_left, next_task,
                   reserved, now>>

\* receive_text() gets the disconnect event, after the link is lost or after
\* the server closed the socket: Starlette sets client_state to DISCONNECTED
\* and raises WebSocketDisconnect inside the inner try of the endpoint
ReceiveDisconnect(e) ==
    /\ running = None
    /\ waiting[e].kind = "recv"
    /\ websocket[e].lost \/ websocket[e].application_state = "DISCONNECTED"
    /\ websocket' = [websocket EXCEPT ![e].client_state = "DISCONNECTED"]
    /\ waiting' = [waiting EXCEPT ![e] = NotWaiting]
    /\ running' = e
    /\ exc' = "Exception"
    /\ UNCHANGED <<connections, connection, streaming_tasks, tasks, stack,
                   ret, sent, msgs_left, losses_left, next_task, reserved,
                   now>>

\* accept(), send_text() or close() finishes: the awaiting coroutine goes on,
\* with the exception the call raised if it failed
IOCompletes(c) ==
    /\ running = None
    /\ waiting[c].kind = "io"
    /\ ~MustCancel(c)
    /\ waiting' = [waiting EXCEPT ![c] = NotWaiting]
    /\ running' = c
    /\ exc' = IF waiting[c].pending = "raise" THEN "Exception" ELSE None
    /\ UNCHANGED <<connections, connection, websocket, streaming_tasks, tasks,
                   stack, ret, sent, msgs_left, losses_left, next_task,
                   reserved, now>>

\* time.time() advances; one unit is the default timeout_seconds of
\* cleanup_inactive_connections
Tick ==
    /\ running = None
    /\ now < MaxTime
    /\ now' = now + 1
    /\ UNCHANGED <<connections, connection, websocket, streaming_tasks, tasks,
                   stack, waiting, running, exc, ret, sent, msgs_left,
                   losses_left, next_task, reserved>>

(***************************************************************************)
(* asyncio: the steps of a task                                            *)
(***************************************************************************)
\* The first step of a task.  A task cancelled before it never runs its
\* coroutine: CancelledError is thrown into the unstarted coroutine, which
\* ends at once, outside the try of _stream_response.  Otherwise
\* _stream_response runs up to the first __anext__ of the generator.
TaskFirstStep(k) ==
    /\ running = None
    /\ k \in Tasks
    /\ waiting[k].kind = "start"
    /\ IF tasks[k].must_cancel
       THEN /\ tasks' = [tasks EXCEPT ![k].state = "cancelled",
                                      ![k].must_cancel = FALSE]
            /\ waiting' = [waiting EXCEPT ![k].kind = "done"]
            /\ UNCHANGED stack
       ELSE /\ stack' = [stack EXCEPT ![k] =
                  << Frame("_stream_response", "iter", tasks[k].client_id,
                           tasks[k].task_id, NoMessage) >>]
            /\ waiting' = [waiting EXCEPT ![k].kind = "gen"]
            /\ UNCHANGED tasks
    /\ UNCHANGED <<connections, connection, websocket, streaming_tasks,
                   running, exc, ret, sent, msgs_left, losses_left, next_task,
                   reserved, now>>

\* A cancelled task is woken with CancelledError at the await it is
\* suspended on; what it awaited is abandoned
CancelledErrorThrown(k) ==
    /\ running = None
    /\ k \in Tasks
    /\ Live(k)
    /\ tasks[k].must_cancel
    /\ waiting[k].kind \in {"io", "gen", "task"}
    /\ tasks' = [tasks EXCEPT ![k].must_cancel = FALSE]
    /\ waiting' = [waiting EXCEPT ![k] = NotWaiting]
    /\ running' = k
    /\ exc' = "CancelledError"
    /\ UNCHANGED <<connections, connection, websocket, streaming_tasks, stack,
                   ret, sent, msgs_left, losses_left, next_task, reserved,
                   now>>

\* `await task` finishes when the task has: normally, or with CancelledError
\* when the task ended cancelled
TaskAwaitCompletes(c) ==
    /\ running = None
    /\ waiting[c].kind = "task"
    /\ ~MustCancel(c)
    /\ ~Live(waiting[c].target)
    /\ waiting' = [waiting EXCEPT ![c] = NotWaiting]
    /\ running' = c
    /\ exc' = IF tasks[waiting[c].target].state = "cancelled"
              THEN "CancelledError" ELSE None
    /\ UNCHANGED <<connections, connection, websocket, streaming_tasks, tasks,
                   stack, ret, sent, msgs_left, losses_left, next_task,
                   reserved, now>>

\* the generator yields the next chunk (line 233)
GeneratorYields(k) ==
    /\ running = None
    /\ k \in Tasks
    /\ waiting[k].kind = "gen"
    /\ ~tasks[k].must_cancel
    /\ tasks[k].yielded < MaxChunks
    /\ tasks' = [tasks EXCEPT ![k].yielded = @ + 1]
    /\ stack' = [stack EXCEPT ![k] = [@ EXCEPT ![Len(@)].pc = "check"]]
    /\ waiting' = [waiting EXCEPT ![k] = NotWaiting]
    /\ running' = k
    /\ UNCHANGED <<connections, connection, websocket, streaming_tasks, exc,
                   ret, sent, msgs_left, losses_left, next_task, reserved,
                   now>>

\* the generator is exhausted: the loop ends
GeneratorStops(k) ==
    /\ running = None
    /\ k \in Tasks
    /\ waiting[k].kind = "gen"
    /\ ~tasks[k].must_cancel
    /\ stack' = [stack EXCEPT ![k] = [@ EXCEPT ![Len(@)].pc = "complete"]]
    /\ waiting' = [waiting EXCEPT ![k] = NotWaiting]
    /\ running' = k
    /\ UNCHANGED <<connections, connection, websocket, streaming_tasks, tasks,
                   exc, ret, sent, msgs_left, losses_left, next_task,
                   reserved, now>>

\* the generator raises (as query_codebase of the RAG service may)
GeneratorRaises(k) ==
    /\ running = None
    /\ k \in Tasks
    /\ waiting[k].kind = "gen"
    /\ ~tasks[k].must_cancel
    /\ waiting' = [waiting EXCEPT ![k] = NotWaiting]
    /\ running' = k
    /\ exc' = "Exception"
    /\ UNCHANGED <<connections, connection, websocket, streaming_tasks, tasks,
                   stack, ret, sent, msgs_left, losses_left, next_task,
                   reserved, now>>

(***************************************************************************)
(* websocket_chat_endpoint (api/v1/websocket.py)                           *)
(***************************************************************************)
\* lines 40-42: connect returned
endpoint_connected ==
    /\ At("websocket_chat_endpoint", "connected")
    /\ IF ret = "False"
       THEN /\ stack' = Popped
            /\ waiting' = [waiting EXCEPT ![running].kind = "done"]
            /\ running' = None
       ELSE /\ stack' = Goto("receive")
            /\ UNCHANGED <<waiting, running>>
    /\ ret' = None
    /\ UNCHANGED <<connections, connection, websocket, streaming_tasks, tasks,
                   exc, sent, msgs_left, losses_left, next_task, reserved,
                   now>>

\* line 48: await websocket.receive_text().  Starlette raises RuntimeError at
\* once when the application or the client side is no longer CONNECTED;
\* otherwise the endpoint waits for the client.
endpoint_receive ==
    /\ At("websocket_chat_endpoint", "receive")
    /\ IF \/ websocket[running].application_state # "CONNECTED"
          \/ websocket[running].client_state # "CONNECTED"
       THEN /\ exc' = "Exception"
            /\ UNCHANGED <<waiting, running, ret>>
       ELSE /\ Suspend("recv", "ok", None)
            /\ UNCHANGED exc
    /\ UNCHANGED <<connections, connection, websocket, streaming_tasks, tasks,
                   stack, sent, msgs_left, losses_left, next_task, reserved,
                   now>>

(***************************************************************************)
(* WebSocketManager.connect                                                *)
(***************************************************************************)
\* lines 69-85: make the connection object, register it under client_id
\* (replacing what was registered), send the welcome message
connect_register ==
    /\ At("connect", "accepted")
    /\ LET f == Top(running) IN
       /\ connection' = [connection EXCEPT ![f.connection] =
              [client_id |-> f.client_id, last_activity |-> now,
               is_streaming |-> FALSE, current_task_id |-> None]]
       /\ connections' = [connections EXCEPT ![f.client_id] = f.connection]
       /\ stack' = CallFrom("welcomed",
                            SendFrame(f.client_id, None, "status_update", 0))
    /\ UNCHANGED <<websocket, streaming_tasks, tasks, waiting, running, exc,
                   ret, sent, msgs_left, losses_left, next_task, reserved,
                   now>>

\* line 87
connect_return ==
    /\ At("connect", "welcomed")
    /\ Return("True")
    /\ UNCHANGED <<connections, connection, websocket, streaming_tasks, tasks,
                   waiting, running, exc, sent, msgs_left, losses_left,
                   next_task, reserved, now>>

(***************************************************************************)
(* WebSocketManager.disconnect                                             *)
(***************************************************************************)
\* lines 95-102; the frame remembers the connection and its current task
disconnect_enter ==
    /\ At("disconnect", "enter")
    /\ LET f == Top(running)
           c == connections[f.client_id]
       IN IF c = None
          THEN Return(None)
          ELSE /\ ret' = ret
               /\ stack' =
                    IF connection[c].current_task_id # None
                    THEN [stack EXCEPT ![running] = Append(
                             [@ EXCEPT ![Len(@)].pc = "close",
                                       ![Len(@)].connection = c,
                                       ![Len(@)].task_id =
                                           connection[c].current_task_id,
                                       ![Len(@)].task =
                                           ActiveTask(connection[c].current_task_id)],
                             CancelFrame(connection[c].current_task_id))]
                    ELSE SetTop([f EXCEPT !.pc = "close", !.connection = c])
    /\ UNCHANGED <<connections, connection, websocket, streaming_tasks, tasks,
                   waiting, running, exc, sent, msgs_left, losses_left,
                   next_task, reserved, now>>

\* lines 105-106: close the socket if the client side is CONNECTED.  close()
\* raises at once when a close was already sent; on a lost link it may or may
\* not raise.
disconnect_close ==
    /\ At("disconnect", "close")
    /\ LET ws == Top(running).connection IN
       IF websocket[ws].client_state # "CONNECTED"
       THEN /\ stack' = Goto("del")
            /\ UNCHANGED <<websocket, waiting, running, exc, ret>>
       ELSE IF websocket[ws].application_state # "CONNECTED"
            THEN /\ exc' = "Exception"
                 /\ stack' = Goto("closed")
                 /\ UNCHANGED <<websocket, waiting, running, ret>>
            ELSE /\ websocket' = [websocket EXCEPT
                                     ![ws].application_state = "DISCONNECTED"]
                 /\ \E outcome \in (IF websocket[ws].lost
                                    THEN {"ok", "raise"} ELSE {"ok"}) :
                        Suspend("io", outcome, None)
                 /\ stack' = Goto("closed")
                 /\ UNCHANGED exc
    /\ UNCHANGED <<connections, connection, streaming_tasks, tasks, sent,
                   msgs_left, losses_left, next_task, reserved, now>>

\* line 109: del self.connections[client_id]; the KeyError of an entry that
\* is already gone is caught at line 113
disconnect_del ==
    /\ \/ At("disconnect", "closed")
       \/ At("disconnect", "del")
    /\ connections' = [connections EXCEPT ![Top(running).client_id] = None]
    /\ stack' = Goto("return")
    /\ UNCHANGED <<connection, websocket, streaming_tasks, tasks, waiting,
                   running, exc, ret, sent, msgs_left, losses_left, next_task,
                   reserved, now>>

\* disconnect returns, after line 111 or after the except of line 113
disconnect_return ==
    /\ At("disconnect", "return")
    /\ Return(None)
    /\ UNCHANGED <<connections, connection, websocket, streaming_tasks, tasks,
                   waiting, running, exc, sent, msgs_left, losses_left,
                   next_task, reserved, now>>

(***************************************************************************)
(* WebSocketManager.handle_message and the handlers                        *)
(***************************************************************************)
\* lines 118-146
handle_message_enter ==
    /\ At("handle_message", "enter")
    /\ LET f == Top(running)
           c == connections[f.client_id]
           type == f.message.type
       IN IF c = None
          THEN /\ Return(None)
               /\ UNCHANGED connection
          ELSE /\ connection' = [connection EXCEPT ![c].last_activity = now]
               /\ ret' = ret
               /\ stack' =
                    IF \/ type = None
                       \/ type \notin MessageType
                       \/ type \notin DOMAIN message_handlers
                    THEN CallFrom("return", send_error(f.client_id))
                    ELSE CallFrom("return",
                             Frame(message_handlers[type], "enter",
                                   f.client_id, f.task_id, NoMessage))
    /\ UNCHANGED <<connections, websocket, streaming_tasks, tasks, waiting,
                   running, exc, sent, msgs_left, losses_left, next_task,
                   reserved, now>>

\* lines 307-345
handle_stream_query_enter ==
    /\ At("_handle_stream_query", "enter")
    /\ LET f == Top(running) IN
       stack' = CallFrom("return",
                    Frame("start_streaming_response", "enter", f.client_id,
                          f.task_id, NoMessage))
    /\ UNCHANGED <<connections, connection, websocket, streaming_tasks, tasks,
                   waiting, running, exc, ret, sent, msgs_left, losses_left,
                   next_task, reserved, now>>

\* lines 353-355
handle_stop_generation_enter ==
    /\ At("_handle_stop_generation", "enter")
    /\ LET f == Top(running)
           c == connections[f.client_id]
       IN IF c # None /\ connection[c].current_task_id # None
          THEN /\ stack' = CallFrom("stopped",
                               CancelFrame(connection[c].current_task_id))
               /\ ret' = ret
          ELSE Return(None)
    /\ UNCHANGED <<connections, connection, websocket, streaming_tasks, tasks,
                   waiting, running, exc, sent, msgs_left, losses_left,
                   next_task, reserved, now>>

\* lines 357-361: the status message is the last statement of the handler
handle_stop_generation_status ==
    /\ At("_handle_stop_generation", "stopped")
    /\ stack' = SetTop(SendFrame(Top(running).client_id, None, "status_update", 0))
    /\ UNCHANGED <<connections, connection, websocket, streaming_tasks, tasks,
                   waiting, running, exc, ret, sent, msgs_left, losses_left,
                   next_task, reserved, now>>

\* lines 365-368: the pong message is the only statement of the handler
handle_ping ==
    /\ At("_handle_ping", "enter")
    /\ stack' = SetTop(SendFrame(Top(running).client_id, None, "pong", 0))
    /\ UNCHANGED <<connections, connection, websocket, streaming_tasks, tasks,
                   waiting, running, exc, ret, sent, msgs_left, losses_left,
                   next_task, reserved, now>>

(***************************************************************************)
(* WebSocketManager.send_message                                           *)
(***************************************************************************)
\* a later task was created for the client_id of task k
Superseded(k) ==
    \E i, j \in 1..MaxTasks :
        /\ TaskObjects[i] = k
        /\ i < j
        /\ tasks[TaskObjects[j]].state # "none"
        /\ tasks[TaskObjects[j]].client_id = tasks[k].client_id

\* lines 154-165.  send_text raises at once after a close was sent, and
\* fails on a lost link; a stream message it writes is recorded in `sent`.
send_message_enter ==
    /\ At("send_message", "enter")
    /\ LET f == Top(running)
           c == connections[f.client_id]
       IN IF c = None \/ websocket[c].client_state # "CONNECTED"
          THEN /\ Return("False")
               /\ UNCHANGED <<waiting, running, exc, sent>>
          ELSE IF websocket[c].application_state # "CONNECTED"
               THEN /\ exc' = "Exception"
                    /\ stack' = SetTop([f EXCEPT !.pc = "send_text", !.connection = c])
                    /\ UNCHANGED <<waiting, running, ret, sent>>
               ELSE /\ Suspend("io", IF websocket[c].lost THEN "raise" ELSE "ok", None)
                    /\ stack' = SetTop([f EXCEPT !.pc = "send_text", !.connection = c])
                    /\ sent' = IF ~websocket[c].lost /\ f.message.type \in StreamTypes
                               THEN [sent EXCEPT ![running] = Append(@,
                                      [websocket |-> c, type |-> f.message.type,
                                       chunk |-> f.message.chunk,
                                       superseded |-> Superseded(running)])]
                               ELSE sent
                    /\ UNCHANGED exc
    /\ UNCHANGED <<connections, connection, websocket, streaming_tasks, tasks,
                   msgs_left, losses_left, next_task, reserved, now>>

\* line 162
send_message_sent ==
    /\ At("send_message", "send_text")
    /\ Return("True")
    /\ UNCHANGED <<connections, connection, websocket, streaming_tasks, tasks,
                   waiting, running, exc, sent, msgs_left, losses_left,
                   next_task, reserved, now>>

\* line 171, after the disconnect of line 170
send_message_failed ==
    /\ At("send_message", "disconnected")
    /\ Return("False")
    /\ UNCHANGED <<connections, connection, websocket, streaming_tasks, tasks,
                   waiting, running, exc, sent, msgs_left, losses_left,
                   next_task, reserved, now>>

(***************************************************************************)
(* start_streaming_response, _stream_response, _cancel_streaming_task      *)
(***************************************************************************)
\* lines 205-211; the frame remembers the active task it cancels
start_streaming_response_enter ==
    /\ At("start_streaming_response", "enter")
    /\ LET f == Top(running)
           c == connections[f.client_id]
       IN IF c = None
          THEN Return(None)
          ELSE /\ ret' = ret
               /\ stack' =
                    IF connection[c].current_task_id # None
                    THEN [stack EXCEPT ![running] = Append(
                             [@ EXCEPT ![Len(@)].pc = "create",
                                       ![Len(@)].connection = c,
                                       ![Len(@)].task =
                                           ActiveTask(connection[c].current_task_id)],
                             CancelFrame(connection[c].current_task_id))]
                    ELSE SetTop([f EXCEPT !.pc = "create", !.connection = c])
    /\ UNCHANGED <<connections, connection, websocket, streaming_tasks, tasks,
                   waiting, running, exc, sent, msgs_left, losses_left,
                   next_task, reserved, now>>

\* lines 214-220: asyncio.create_task, then the task is registered under
\* task_id and made the current task of the connection object looked up at
\* line 205
start_streaming_response_create ==
    /\ At("start_streaming_response", "create")
    /\ LET f == Top(running)
           k == TaskObjects[next_task]
       IN /\ tasks' = [tasks EXCEPT ![k] =
                 [state |-> "pending", client_id |-> f.client_id,
                  task_id |-> f.task_id, must_cancel |-> FALSE, yielded |-> 0,
                  connection |-> f.connection, replaces |-> f.task]]
          /\ waiting' = [waiting EXCEPT ![k].kind = "start"]
          /\ streaming_tasks' = [streaming_tasks EXCEPT ![f.task_id] = k]
          /\ connection' = [connection EXCEPT
                               ![f.connection].current_task_id = f.task_id,
                               ![f.connection].is_streaming = TRUE]
    /\ next_task' = next_task + 1
    /\ Return(None)
    /\ UNCHANGED <<connections, websocket, running, exc, sent, msgs_left,
                   losses_left, reserved, now>>

\* lines 235-244: the cancellation check, then the chunk is sent
stream_response_check ==
    /\ At("_stream_response", "check")
    /\ LET f == Top(running) IN
       stack' = IF streaming_tasks[f.task_id] = None
                THEN Goto("complete")
                ELSE CallFrom("chunk_sent",
                         SendFrame(f.client_id, f.task_id, "stream_chunk",
                                   tasks[running].yielded))
    /\ UNCHANGED <<connections, connection, websocket, streaming_tasks, tasks,
                   waiting, running, exc, ret, sent, msgs_left, losses_left,
                   next_task, reserved, now>>

\* lines 246-247 and the next __anext__ of line 233
stream_response_chunk_sent ==
    /\ At("_stream_response", "chunk_sent")
    /\ IF ret = "True"
       THEN /\ Suspend("gen", "ok", None)
            /\ stack' = Goto("iter")
       ELSE /\ stack' = Goto("complete")
            /\ ret' = None
            /\ UNCHANGED <<waiting, running>>
    /\ UNCHANGED <<connections, connection, websocket, streaming_tasks, tasks,
                   exc, sent, msgs_left, losses_left, next_task, reserved,
                   now>>

\* lines 250-255
stream_response_complete ==
    /\ At("_stream_response", "complete")
    /\ LET f == Top(running) IN
       stack' = CallFrom("complete_sent",
                    SendFrame(f.client_id, f.task_id, "stream_complete", 0))
    /\ UNCHANGED <<connections, connection, websocket, streaming_tasks, tasks,
                   waiting, running, exc, ret, sent, msgs_left, losses_left,
                   next_task, reserved, now>>

\* _cleanup_streaming_task, lines 294-300
cleanup_connection(client_id) ==
    LET c == connections[client_id] IN
    IF c = None
    THEN connection
    ELSE [connection EXCEPT ![c].is_streaming = FALSE,
                            ![c].current_task_id = None]

cleanup_streaming_tasks(task_id) == [streaming_tasks EXCEPT ![task_id] = None]

\* lines 275-277 after the try or an except clause ended normally: cleanup,
\* and the task is done
stream_response_finally ==
    /\ \/ At("_stream_response", "complete_sent")
       \/ At("_stream_response", "error_sent")
    /\ LET f == Top(running) IN
       /\ connection' = cleanup_connection(f.client_id)
       /\ streaming_tasks' = cleanup_streaming_tasks(f.task_id)
    /\ tasks' = [tasks EXCEPT ![running].state = "done",
                              ![running].must_cancel = FALSE]
    /\ stack' = Popped
    /\ waiting' = [waiting EXCEPT ![running].kind = "done"]
    /\ running' = None
    /\ ret' = None
    /\ UNCHANGED <<connections, websocket, exc, sent, msgs_left, losses_left,
                   next_task, reserved, now>>

\* lines 281-285: a task that is not done is cancelled and awaited
cancel_streaming_task_enter ==
    /\ At("_cancel_streaming_task", "enter")
    /\ LET f == Top(running)
           task == streaming_tasks[f.task_id]
       IN IF ActiveTask(f.task_id) # None
          THEN /\ tasks' = cancel(tasks, task, {})
               /\ stack' = SetTop([f EXCEPT !.pc = "await", !.task = task])
               /\ Suspend("task", "ok", task)
          ELSE /\ stack' = Goto("del")
               /\ UNCHANGED <<tasks, waiting, running, ret>>
    /\ UNCHANGED <<connections, connection, websocket, streaming_tasks, exc,
                   sent, msgs_left, losses_left, next_task, reserved, now>>

\* lines 289-290
cancel_streaming_task_del ==
    /\ \/ At("_cancel_streaming_task", "await")
       \/ At("_cancel_streaming_task", "del")
    /\ streaming_tasks' = [streaming_tasks EXCEPT ![Top(running).task_id] = None]
    /\ Return(None)
    /\ UNCHANGED <<connections, connection, websocket, tasks, waiting,
                   running, exc, sent, msgs_left, losses_left, next_task,
                   reserved, now>>

(***************************************************************************)
(* WebSocketManager.cleanup_inactive_connections                           *)
(***************************************************************************)
\* the default of the timeout_seconds parameter (line 379), in units of `now`
timeout_seconds == 1

\* lines 381-386: the client ids whose connection has been inactive for
\* longer than the timeout
inactive_clients(timeout) ==
    { client_id \in ClientIds :
        /\ connections[client_id] # None
        /\ now - connection[connections[client_id]].last_activity > timeout }

\* cleanup_inactive_connections() is called: lines 381-386 run without an
\* await
cleanup_inactive_connections_enter ==
    /\ running = None
    /\ waiting["sweep"].kind = "unstarted"
    /\ stack' = [stack EXCEPT !["sweep"] =
          << [Frame("cleanup_inactive_connections", "loop", None, None, NoMessage)
                 EXCEPT !.inactive_clients = inactive_clients(timeout_seconds)] >>]
    /\ waiting' = [waiting EXCEPT !["sweep"] = NotWaiting]
    /\ running' = "sweep"
    /\ UNCHANGED <<connections, connection, websocket, streaming_tasks, tasks,
                   exc, ret, sent, msgs_left, losses_left, next_task,
                   reserved, now>>

\* lines 388-390: disconnect the next inactive client, or return; the
\* function can then be called again
cleanup_inactive_connections_loop ==
    /\ At("cleanup_inactive_connections", "loop")
    /\ LET f == Top(running) IN
       IF f.inactive_clients = {}
       THEN /\ stack' = Popped
            /\ waiting' = [waiting EXCEPT ![running].kind = "unstarted"]
            /\ running' = None
       ELSE /\ \E client_id \in f.inactive_clients :
                  stack' = [stack EXCEPT ![running] = Append(
                      [@ EXCEPT ![Len(@)].inactive_clients =
                                    f.inactive_clients \ {client_id}],
                      Frame("disconnect", "enter", client_id, None, NoMessage))]
            /\ UNCHANGED <<waiting, running>>
    /\ ret' = None
    /\ UNCHANGED <<connections, connection, websocket, streaming_tasks, tasks,
                   exc, sent, msgs_left, losses_left, next_task, reserved,
                   now>>

(***************************************************************************)
(* Exceptions: the except clauses, and propagation to the caller           *)
(***************************************************************************)
\* the positions inside the try of _stream_response (lines 233-255)
TryBody == {"iter", "check", "chunk_sent", "complete", "complete_sent"}

Unwind ==
    /\ running # None
    /\ exc # None
    /\ LET f == Top(running) IN
       CASE f.fn = "connect" /\ exc = "Exception" ->
                \* lines 89-91
                /\ stack' = Popped
                /\ ret' = "False"
                /\ exc' = None
                /\ UNCHANGED <<connection, streaming_tasks, tasks, waiting,
                               running>>
         [] f.fn = "disconnect" /\ exc = "Exception" ->
                \* lines 113-114
                /\ stack' = Goto("return")
                /\ exc' = None
                /\ UNCHANGED <<connection, streaming_tasks, tasks, waiting,
                               running, ret>>
         [] f.fn = "send_message" /\ f.pc = "send_text" /\ exc = "Exception" ->
                \* lines 167-170
                /\ stack' = CallFrom("disconnected",
                                Frame("disconnect", "enter", f.client_id, None,
                                      NoMessage))
                /\ exc' = None
                /\ UNCHANGED <<connection, streaming_tasks, tasks, waiting,
                               running, ret>>
         [] /\ f.fn \in {"handle_message", "_handle_stream_query"}
            /\ f.pc = "return"
            /\ exc = "Exception" ->
                \* lines 148-150 and 347-349
                /\ stack' = CallFrom("except_done", send_error(f.client_id))
                /\ exc' = None
                /\ UNCHANGED <<connection, streaming_tasks, tasks, waiting,
                               running, ret>>
         [] /\ f.fn = "_cancel_streaming_task"
            /\ f.pc = "await"
            /\ exc = "CancelledError" ->
                \* lines 286-287
                /\ stack' = Goto("del")
                /\ exc' = None
                /\ UNCHANGED <<connection, streaming_tasks, tasks, waiting,
                               running, ret>>
         [] f.fn = "_stream_response" /\ f.pc \in TryBody ->
                \* lines 257-264 and 266-273
                /\ stack' = CallFrom("error_sent",
                                SendFrame(f.client_id, f.task_id, "stream_error", 0))
                /\ exc' = None
                /\ UNCHANGED <<connection, streaming_tasks, tasks, waiting,
                               running, ret>>
         [] f.fn = "_stream_response" /\ f.pc \notin TryBody ->
                \* an exception out of an except clause: the finally of
                \* lines 275-277, and the task ends with the exception
                /\ connection' = cleanup_connection(f.client_id)
                /\ streaming_tasks' = cleanup_streaming_tasks(f.task_id)
                /\ tasks' = [tasks EXCEPT
                        ![running].state = IF exc = "CancelledError"
                                           THEN "cancelled" ELSE "done",
                        ![running].must_cancel = FALSE]
                /\ stack' = Popped
                /\ waiting' = [waiting EXCEPT ![running].kind = "done"]
                /\ running' = None
                /\ exc' = None
                /\ ret' = None
         [] f.fn = "websocket_chat_endpoint" /\ exc = "Exception" ->
                \* lines 58-60: the except inside the loop, which then goes on
                /\ stack' = CallFrom("receive", send_error(f.client_id))
                /\ exc' = None
                /\ UNCHANGED <<connection, streaming_tasks, tasks, waiting,
                               running, ret>>
         [] OTHER ->
                \* no except clause applies: the exception reaches the caller
                /\ stack' = Popped
                /\ UNCHANGED <<connection, streaming_tasks, tasks, waiting,
                               running, exc, ret>>
    /\ UNCHANGED <<connections, websocket, sent, msgs_left, losses_left,
                   next_task, reserved, now>>

other_vars == <<llm_vars, emb_vars, ext_vars>>

WSNext ==
    \/ (\E e \in Endpoints : ClientConnects(e)) /\ UNCHANGED other_vars
    \/ (\E e \in Endpoints : \E m \in ClientMessages : ClientMessage(e, m))
           /\ UNCHANGED other_vars
    \/ (\E e \in Endpoints : ConnectionLost(e)) /\ UNCHANGED other_vars
    \/ (\E e \in Endpoints : ReceiveDisconnect(e)) /\ UNCHANGED other_vars
    \/ (\E c \in Coroutines : IOCompletes(c)) /\ UNCHANGED other_vars
    \/ (\E k \in Tasks : TaskFirstStep(k)) /\ UNCHANGED other_vars
    \/ (\E k \in Tasks : CancelledErrorThrown(k)) /\ UNCHANGED other_vars
    \/ (\E c \in Coroutines : TaskAwaitCompletes(c)) /\ UNCHANGED other_vars
    \/ (\E k \in Tasks : GeneratorYields(k)) /\ UNCHANGED other_vars
    \/ (\E k \in Tasks : GeneratorStops(k)) /\ UNCHANGED other_vars
    \/ (\E k \in Tasks : GeneratorRaises(k)) /\ UNCHANGED other_vars
    \/ endpoint_connected /\ UNCHANGED other_vars
    \/ endpoint_receive /\ UNCHANGED other_vars
    \/ connect_register /\ UNCHANGED other_vars
    \/ connect_return /\ UNCHANGED other_vars
    \/ disconnect_enter /\ UNCHANGED other_vars
    \/ disconnect_close /\ UNCHANGED other_vars
    \/ disconnect_del /\ UNCHANGED other_vars
    \/ disconnect_return /\ UNCHANGED other_vars
    \/ handle_message_enter /\ UNCHANGED other_vars
    \/ handle_stream_query_enter /\ UNCHANGED other_vars
    \/ handle_stop_generation_enter /\ UNCHANGED other_vars
    \/ handle_stop_generation_status /\ UNCHANGED other_vars
    \/ handle_ping /\ UNCHANGED other_vars
    \/ send_message_enter /\ UNCHANGED other_vars
    \/ send_message_sent /\ UNCHANGED other_vars
    \/ send_message_failed /\ UNCHANGED other_vars
    \/ start_streaming_response_enter /\ UNCHANGED other_vars
    \/ start_streaming_response_create /\ UNCHANGED other_vars
    \/ stream_response_check /\ UNCHANGED other_vars
    \/ stream_response_chunk_sent /\ UNCHANGED other_vars
    \/ stream_response_complete /\ UNCHANGED other_vars
    \/ stream_response_finally /\ UNCHANGED other_vars
    \/ cancel_streaming_task_enter /\ UNCHANGED other_vars
    \/ cancel_streaming_task_del /\ UNCHANGED other_vars
    \/ Unwind /\ UNCHANGED other_vars

Init == WSInit /\ LLMIdle /\ EmbIdle /\ ExtIdle

Spec == Init /\ [][WSNext]_vars

(***************************************************************************)
(* The manager with a clock and a caller of cleanup_inactive_connections,  *)
(* for one client.  The steps of the server, of the event loop and of the  *)
(* clock are fair.  What a client does is not, and neither is the call of  *)
(* cleanup_inactive_connections: the function has no call site, and no     *)
(* timer or background task is set up for it (main.py lines 35-75 start    *)
(* the manager).                                                           *)
(***************************************************************************)
InitTimed == WSInitWith({"e1", "sweep"}) /\ LLMIdle /\ EmbIdle /\ ExtIdle

\* a step of the event loop or of the running coroutine
ServerStep ==
    \/ \E e \in Endpoints : ReceiveDisconnect(e)
    \/ \E c \in Coroutines : IOCompletes(c)
    \/ \E k \in Tasks : TaskFirstStep(k)
    \/ \E k \in Tasks : CancelledErrorThrown(k)
    \/ \E c \in Coroutines : TaskAwaitCompletes(c)
    \/ \E k \in Tasks : GeneratorYields(k) \/ GeneratorStops(k) \/ GeneratorRaises(k)
    \/ endpoint_connected \/ endpoint_receive
    \/ connect_register \/ connect_return
    \/ disconnect_enter \/ disconnect_close \/ disconnect_del \/ disconnect_return
    \/ handle_message_enter \/ handle_stream_query_enter
    \/ handle_stop_generation_enter \/ handle_stop_generation_status
    \/ handle_ping
    \/ send_message_enter \/ send_message_sent \/ send_message_failed
    \/ start_streaming_response_enter \/ start_streaming_response_create
    \/ stream_response_check \/ stream_response_chunk_sent
    \/ stream_response_complete \/ stream_response_finally
    \/ cancel_streaming_task_enter \/ cancel_streaming_task_del
    \/ cleanup_inactive_connections_loop
    \/ Unwind

WSNextTimed ==
    \/ WSNext
    \/ Tick /\ UNCHANGED other_vars
    \/ cleanup_inactive_connections_enter /\ UNCHANGED other_vars
    \/ cleanup_inactive_connections_loop /\ UNCHANGED other_vars

SpecTimed ==
    /\ InitTimed
    /\ [][WSNextTimed]_vars
    /\ WF_vars(ServerStep /\ UNCHANGED other_vars)
    /\ WF_vars(Tick /\ UNCHANGED other_vars)

InitLLM == LLMInit /\ EmbIdle /\ WSIdle /\ ExtIdle

SpecLLM == InitLLM /\ [][LLMNext]_vars

InitEmb == EmbInit /\ LLMIdle /\ WSIdle /\ ExtIdle

SpecEmb == InitEmb /\ [][EmbNext]_vars

(***************************************************************************)
(* Properties: LLMService                                                  *)
(***************************************************************************)
\* no provider of the status table is available
NoProviderAvailable ==
    \A i \in 1..Len(provider_status) : ~provider_status[i].available

\* C6: when no generation provider is available, a generation request ends
\* with the "no provider available" error; it does not end in any other way
\* and is not sent to a provider.
C6_NoProviderRaisesNoProviderAvailable ==
    (llm_result.op = "generate" /\ NoProviderAvailable)
        => llm_result.result.outcome = "RuntimeError: No LLM providers available"

\* the provider asked for is absent from the table or recorded unavailable
PreferredUnusable ==
    LET i == StatusIndex(provider_status, llm_result.preferred) IN
    llm_result.preferred = None \/ i = 0 \/ ~provider_status[i].available

\* C7: with an unavailable or absent preferred provider, the selection is an
\* available provider of the configured mode with the lowest measured
\* response time; if none matches the mode, an available provider with a
\* model; (none, none) only if no provider is available with a model.
C7_FallsThroughToFastestOfMode ==
    (llm_result.op = "select" /\ PreferredUnusable) =>
        LET ps == provider_status
            r == llm_result.result
            ofMode == { i \in 1..Len(ps) :
                          /\ ps[i].available
                          /\ (current_mode = "hybrid"
                                \/ MODEL_PROVIDERS[ps[i].name].type = current_mode) }
            withModel == { i \in 1..Len(ps) : ps[i].available /\ Len(ps[i].models) > 0 }
        IN  IF ofMode # {}
            THEN \E i \in ofMode :
                    /\ r.provider = ps[i].name
                    /\ \A j \in ofMode : ps[i].response_time <= ps[j].response_time
            ELSE IF withModel # {}
            THEN \E i \in withModel : r.provider = ps[i].name
            ELSE r.provider = None /\ r.model = None

\* the provider asked for is recorded available with at least one model
PreferredUsable ==
    LET i == StatusIndex(provider_status, llm_result.preferred) IN
    /\ llm_result.preferred # None
    /\ i # 0
    /\ provider_status[i].available
    /\ Len(provider_status[i].models) > 0

\* C8: a requested provider that is available with a model is the one
\* returned, with its first recommended model (its first model when none is
\* recommended), whatever the mode and the latencies; and the first step
\* returns no provider that is unavailable or has no model.
C8_PreferredAvailableIsReturned ==
    llm_result.op = "select" =>
        LET r == llm_result.result
            i == StatusIndex(provider_status, llm_result.preferred)
        IN  /\ PreferredUsable =>
                LET ms == provider_status[i].models
                    rec == { k \in 1..Len(ms) : ms[k].recommended }
                IN  /\ r.provider = llm_result.preferred
                    /\ r.step = 1
                    /\ r.model = IF rec = {} THEN ms[1].id
                                 ELSE ms[CHOOSE k \in rec : \A l \in rec : k <= l].id
            /\ r.step = 1 => (PreferredUsable /\ r.provider = llm_result.preferred)

\* C8's case: an online provider is asked for in local mode while a local
\* provider is available and faster, and the online one is returned
C8_Witness ==
    /\ llm_result.op = "select"
    /\ PreferredUsable
    /\ current_mode = "local"
    /\ MODEL_PROVIDERS[llm_result.preferred].type = "online"
    /\ \E j \in 1..Len(provider_status) :
          /\ provider_status[j].available
          /\ MODEL_PROVIDERS[provider_status[j].name].type = "local"
          /\ provider_status[j].response_time > 0
          /\ provider_status[j].response_time <
                provider_status[StatusIndex(provider_status,
                                            llm_result.preferred)].response_time
    /\ llm_result.result.provider = llm_result.preferred

(***************************************************************************)
(* Properties: EmbeddingService                                            *)
(***************************************************************************)
\* C9: over any sequence of embed and embed_query calls the model encodes
\* each distinct text hash at most once (two chunks with the same embedding
\* text cost one encoding, in one call or in two).
C9_EachHashEncodedOnce ==
    \A h \in TextHashes : computed[h] <= 1

\* C10: generate_embeddings returns one (chunk_id, vector) pair per input
\* chunk, in the order of the input chunks.
C10_OnePairPerChunkInInputOrder ==
    (emb_result.op = "embed" /\ emb_result.status = "ok") =>
        /\ Len(emb_result.value) = Len(emb_result.chunks)
        /\ \A i \in 1..Len(emb_result.chunks) :
              emb_result.value[i][1] = emb_result.chunks[i].id

InitStore == StoreInit /\ RagIdle /\ ParserIdle /\ LLMIdle /\ EmbIdle /\ WSIdle

SpecStore == InitStore /\ [][StoreNext]_vars

\* two callers re-index files of a collection that an earlier run may have
\* filled
SpecReindex == InitStore /\ [][ReindexNext]_vars

\* a caller stores chunks and searches the collection with filters
SpecSearch == InitStore /\ [][SearchNext]_vars

InitRag == RagInit /\ StoreIdle /\ ParserIdle /\ LLMIdle /\ EmbIdle /\ WSIdle

SpecRag == InitRag /\ [][RagNext]_vars

InitParser == ParserInit /\ StoreIdle /\ RagIdle /\ LLMIdle /\ EmbIdle /\ WSIdle

SpecParser == InitParser /\ [][ParserNext]_vars

(***************************************************************************)
(* Properties: WebSocketManager                                            *)
(***************************************************************************)
Created(k) == tasks[k].state # "none"

Finished(k) == tasks[k].state \in {"done", "cancelled"}

TerminalTypes == {"stream_complete", "stream_error"}

Terminals(log) == Cardinality({ i \in 1..Len(log) : log[i].type \in TerminalTypes })

\* the chunks come first, numbered from 1, and nothing follows a terminal
ChunksThenTerminal(log) ==
    \A i \in 1..Len(log) :
        IF log[i].type = "stream_chunk"
        THEN log[i].chunk = i
        ELSE i = Len(log)

\* the connection the task was started on is still the one registered under
\* its client_id, and its websocket is open on both sides with the link up
SessionStaysConnected(k) ==
    /\ connections[tasks[k].client_id] = tasks[k].connection
    /\ websocket[tasks[k].connection].client_state = "CONNECTED"
    /\ websocket[tasks[k].connection].application_state = "CONNECTED"
    /\ ~websocket[tasks[k].connection].lost

RunningTasks(client_id) ==
    { k \in Tasks : Live(k) /\ tasks[k].client_id = client_id }

\* C1: every client_id has at most one streaming task that is not finished,
\* also after a second connect that reuses the client_id: a new task exists
\* only once the previous one has been cancelled and has finished.
C1_AtMostOneRunningTaskPerSession ==
    \A client_id \in ClientIds : Cardinality(RunningTasks(client_id)) <= 1

\* C2: the messages of a task are its chunks in order and then at most one
\* terminal message, and a task that has finished on a session that stayed
\* connected has sent every chunk it was given and exactly one terminal
\* message (stream_complete or stream_error, not both, not neither).
C2_ChunksThenExactlyOneTerminal ==
    \A k \in Tasks :
        /\ ChunksThenTerminal(sent[k])
        /\ Terminals(sent[k]) <= 1
        /\ (Finished(k) /\ SessionStaysConnected(k)) =>
              /\ Terminals(sent[k]) = 1
              /\ Len(sent[k]) = tasks[k].yielded + 1

\* C3: when start_streaming_response found the previous task of the session
\* still active, the previous task has finished before the new one exists,
\* it has sent exactly one terminal message and no chunk after the new task
\* was created, and the new task, once finished, has sent exactly one
\* terminal message (on a session that stays connected).
C3_PreviousCancelledBeforeNewStarts ==
    \A k \in Tasks :
        (/\ Created(k)
         /\ tasks[k].replaces # None
         /\ tasks[tasks[k].replaces].client_id = tasks[k].client_id
         /\ SessionStaysConnected(k)) =>
            LET previous == tasks[k].replaces IN
            /\ Finished(previous)
            /\ Terminals(sent[previous]) = 1
            /\ \A i \in 1..Len(sent[previous]) :
                  sent[previous][i].type = "stream_chunk" =>
                      ~sent[previous][i].superseded
            /\ Finished(k) => Terminals(sent[k]) = 1

\* disconnect(client_id) found a session with an active task and is about
\* to return
DisconnectReturns ==
    /\ running # None
    /\ exc = None
    /\ stack[running] # <<>>
    /\ Top(running).fn = "disconnect"
    /\ Top(running).pc = "return"
    /\ Top(running).task # None

\* C4: when disconnect(client_id), called on a session with an active task,
\* returns, the task has been cancelled and has finished, client_id is no
\* longer in connections, and the task is no longer registered in
\* streaming_tasks.
C4_DisconnectDiscardsSession ==
    DisconnectReturns =>
        LET f == Top(running) IN
        /\ connections[f.client_id] = None
        /\ Finished(f.task)
        /\ streaming_tasks[f.task_id] # f.task

\* the websocket is the registered connection of its client_id
Registered(e) ==
    /\ connection[e].client_id # None
    /\ connections[connection[e].client_id] = e

\* the last activity of a registered session is older than the timeout
Inactive(e) ==
    /\ Registered(e)
    /\ now - connection[e].last_activity > timeout_seconds

\* the session of the websocket is gone: no connection entry, no running task
Disconnected(e) ==
    /\ ~Registered(e)
    /\ \A k \in Tasks : tasks[k].connection = e => ~Live(k)

\* C5: every session whose last activity is older than the configured
\* timeout is eventually disconnected by the periodic sweep (its connection
\* entry is removed and its task is no longer running), unless the client
\* becomes active again first.
C5_InactiveSessionsEventuallyDisconnected ==
    \A e \in Endpoints : Inactive(e) ~> (Disconnected(e) \/ ~Inactive(e))

(***************************************************************************)
(* Properties: EmbeddingService, query embeddings and failures             *)
(***************************************************************************)
\* the step is a call of generate_query_embedding that returned a vector
QueryEmbeddingReturned ==
    /\ emb_calls' = emb_calls + 1
    /\ emb_result'.op = "embed_query"
    /\ emb_result'.status = "ok"

\* C11: embed_query is idempotent for the same query text: the first call
\* encodes the text once and caches the vector; a later call with the same
\* text is a cache hit that makes no model call and returns the cached
\* vector; and no step changes or drops a cached vector, so all calls for
\* the text return the same vector.
C11_QueryEmbeddingIdempotent ==
    [][ /\ \A h \in DOMAIN embedding_cache :
              /\ h \in DOMAIN embedding_cache'
              /\ embedding_cache'[h] = embedding_cache[h]
        /\ QueryEmbeddingReturned =>
              LET h == get_text_hash(QueryText(emb_result'.query)) IN
              /\ h \in DOMAIN embedding_cache'
              /\ embedding_cache'[h] = emb_result'.value
              /\ IF h \in DOMAIN embedding_cache
                 THEN /\ emb_result'.hit
                      /\ computed' = computed
                 ELSE /\ ~emb_result'.hit
                      /\ computed' = [computed EXCEPT ![h] = @ + 1]
      ]_vars

\* C11's case: a query was embedded by the model once and a later call for
\* the same text was answered from the cache
C11_Witness ==
    /\ emb_result.op = "embed_query"
    /\ emb_result.status = "ok"
    /\ emb_result.hit
    /\ computed[get_text_hash(QueryText(emb_result.query))] = 1
    /\ emb_result.value = Encode(get_text_hash(QueryText(emb_result.query)), 1)

\* the step is a call of generate_embeddings or generate_query_embedding
EmbeddingCall == emb_calls' = emb_calls + 1

\* C12: a call made while the model is not initialized, or in which encoding
\* a batch fails, ends with an error and returns no vectors, and leaves the
\* in-memory cache and the cache file as they were; a call that returns
\* gives every chunk (the query) a vector the model made for its text, never
\* fewer vectors than chunks.
C12_FailedEmbeddingChangesNothing ==
    [][ EmbeddingCall =>
          LET r == emb_result' IN
          /\ model = None => r.status = "RuntimeError"
          /\ r.status # "ok" =>
                /\ r.status \in {"RuntimeError", "Exception"}
                /\ "value" \notin DOMAIN r
                /\ embedding_cache' = embedding_cache
                /\ cache_file' = cache_file
          /\ (r.status = "ok" /\ r.op = "embed") =>
                /\ Len(r.value) = Len(r.chunks)
                /\ \A i \in 1..Len(r.value) :
                      \E j \in 1..Len(r.chunks) :
                          /\ r.value[i][1] = r.chunks[j].id
                          /\ r.value[i][2].of =
                                get_text_hash(create_embedding_text(r.chunks[j]))
          /\ (r.status = "ok" /\ r.op = "embed_query") =>
                r.value.of = get_text_hash(QueryText(r.query))
      ]_vars

\* C12's case: encoding failed in the second batch of a call, after the
\* first batch was encoded, and no vector of the call is in the cache
C12_Witness ==
    /\ emb_result.op = "embed"
    /\ emb_result.status = "Exception"
    /\ Len(emb_result.chunks) > batch_size
    /\ \E h \in TextHashes :
          /\ computed[h] >= batch_size
          /\ h \notin DOMAIN embedding_cache
    /\ embedding_cache = emb_result.cache_before

\* the points of a collection whose payload names the file path
OfPath(collection, file_path) ==
    { p \in collection : p.payload.file_path = file_path }

\* the collection after the i-th call of the log
PointsAfter(i) ==
    IF i < Len(store_log) THEN store_log[i + 1].points_before ELSE points

\* what a point says of its chunk, the id of the point apart
Stored(p) == [payload |-> p.payload, vector |-> p.vector]

\* the i-th call is a delete_by_file_path(p) that returned True and the next
\* one a store_chunks of chunks of p that returned True
Reindexed(i) ==
    /\ i + 1 \in DOMAIN store_log
    /\ store_log[i].op = "delete_by_file_path"
    /\ store_log[i].value = "True"
    /\ store_log[i + 1].op = "store_chunks"
    /\ store_log[i + 1].value = "True"
    /\ \A k \in DOMAIN store_log[i + 1].chunks_with_embeddings :
          store_log[i + 1].chunks_with_embeddings[k][1].file_path
            = store_log[i].file_path

WentToServer(i) ==
    /\ store_log[i].op \in {"store_chunks", "search_similar", "delete_by_file_path"}
    /\ store_log[i].status # "RuntimeError"
    /\ store_log[i].op = "store_chunks"
          => store_log[i].chunks_with_embeddings # << >>

\* C14: a call of search_similar, store_chunks or delete_by_file_path that
\* finds the server unreachable raises StoreUnavailable; it does not return
\* a value (an empty list, a boolean).
C14_UnreachableStoreRaisesStoreUnavailable ==
    \A i \in DOMAIN store_log :
        (WentToServer(i) /\ ~store_log[i].reachable)
            => /\ store_log[i].status = "StoreUnavailable"
               /\ store_log[i].value = None

\* the i-th call is a store_chunks that returned True and the next call
\* repeats it: the same chunks with the same vectors, True again
Repeated(i) ==
    /\ i + 1 \in DOMAIN store_log
    /\ store_log[i].op = "store_chunks"
    /\ store_log[i].value = "True"
    /\ store_log[i + 1].op = "store_chunks"
    /\ store_log[i + 1].value = "True"
    /\ store_log[i + 1].chunks_with_embeddings = store_log[i].chunks_with_embeddings

\* the points of a collection that are records of the chunk
RecordsOf(collection, chunk_id) ==
    { p \in collection : p.payload.chunk_id = chunk_id }

\* C16: a store_chunks that repeats the one before it overwrites: the
\* collection holds as many records of each chunk after the repeat as it
\* did after the first call, and says of the chunks what it said then.
C16_RepeatedStoreChunksOverwrites ==
    \A i \in DOMAIN store_log :
        Repeated(i) =>
            /\ \A k \in DOMAIN store_log[i].chunks_with_embeddings :
                  LET chunk_id == store_log[i].chunks_with_embeddings[k][1].id
                  IN  Cardinality(RecordsOf(PointsAfter(i + 1), chunk_id))
                        = Cardinality(RecordsOf(PointsAfter(i), chunk_id))
            /\ { Stored(p) : p \in PointsAfter(i + 1) }
                 = { Stored(p) : p \in PointsAfter(i) }

\* C15: a call of query_codebase, explain_code, generate_code or
\* find_similar_code in which the embedding, the retrieval or the
\* generation failed ends with an error raised to the caller; it returns
\* nothing, an empty result included.
C15_FailedRagCallRaises ==
    \A i \in DOMAIN rag_log :
        (rag_log[i].op # "initialize" /\ rag_log[i].failed # None)
            => /\ rag_log[i].status # "ok"
               /\ rag_log[i].value = None

\* the chunks the call extracted that _split_large_chunks had to split
SplitBySize ==
    { i \in DOMAIN parse_result.extracted :
        Len(parse_result.extracted[i].content) > parse_call.max_chunk_size }

\* the places in the chunks returned where the chunks made of one extracted
\* chunk begin: a chunk returned whole, or the first sub-chunk of a split
FirstParts == { k \in DOMAIN parse_result.chunks : parse_result.chunks[k].id.part <= 0 }

\* where the chunks made of the i-th extracted chunk begin (past the end of
\* the chunks returned, if there are fewer beginnings)
FirstPartOf(i) ==
    IF i > Cardinality(FirstParts)
    THEN Len(parse_result.chunks) + 1
    ELSE CHOOSE k \in FirstParts : Cardinality({ j \in FirstParts : j < k }) = i - 1

\* the sub-chunks returned for the i-th extracted chunk, in the order
\* returned
SubChunksOf(i) ==
    SubSeq(parse_result.chunks, FirstPartOf(i), FirstPartOf(i + 1) - 1)

C18_NoChunkLongerThanMaxChunkSize ==
    \A i \in DOMAIN parse_result.chunks :
        Len(parse_result.chunks[i].content) <= parse_call.max_chunk_size

\* the lines the returned chunks cover
CoveredLines ==
    UNION { parse_result.chunks[i].line_start .. parse_result.chunks[i].line_end :
              i \in DOMAIN parse_result.chunks }

\* C19: when parse_file reaches the last resort (the split by lines of
\* line 185) for a file that is not empty, the line ranges of the chunks it
\* returns cover every line of the file.
C19_LastResortCoversEveryLine ==
    "last_resort" \in Range(parse_result.stages)
        => 1..Len(Split(parse_call.file.content)) \subseteq CoveredLines

\* _cancel_streaming_task, called by _handle_stop_generation, is at pc
InStopGeneration(pc) ==
    /\ running # None
    /\ exc = None
    /\ Len(stack[running]) >= 2
    /\ Top(running).fn = "_cancel_streaming_task"
    /\ Top(running).pc \in pc
    /\ stack[running][Len(stack[running]) - 1].fn = "_handle_stop_generation"

\* the stop_generation request found an active task, has cancelled it and
\* has waited for it (lines 283-287)
StoppedActiveTask ==
    /\ InStopGeneration({"await", "del"})
    /\ Top(running).task # None

\* the stop_generation request found no active task and goes on to the
\* status message all the same
StoppedNothing ==
    /\ InStopGeneration({"del"})
    /\ Top(running).task = None

\* C20: when a stop_generation request has cancelled the active task of its
\* session, the task has finished, its messages are its chunks and then one
\* terminal message, a stream_error, and the session is idle (not streaming,
\* no current task), as long as the session stays connected; and a
\* stop_generation request that finds no active task does nothing.
C20_StopGenerationStopsTheTask ==
    /\ StoppedActiveTask =>
          LET k == Top(running).task IN
          /\ Finished(k)
          /\ ChunksThenTerminal(sent[k])
          /\ SessionStaysConnected(k) =>
                /\ Terminals(sent[k]) = 1
                /\ sent[k][Len(sent[k])].type = "stream_error"
                /\ ~connection[tasks[k].connection].is_streaming
                /\ connection[tasks[k].connection].current_task_id = None
    /\ ~StoppedNothing

\* the tasks started on the connection
TasksOf(e) == { k \in Tasks : tasks[k].connection = e }

\* no coroutine is still waiting for the task
NobodyAwaits(k) ==
    \A c \in Coroutines : ~(waiting[c].kind = "task" /\ waiting[c].target = k)

\* a coroutine is in disconnect(client_id)
Disconnecting(client_id) ==
    \E c \in Coroutines : \E i \in DOMAIN stack[c] :
        stack[c][i].fn = "disconnect" /\ stack[c][i].client_id = client_id

\* the event loop has control, the endpoint of the registered session is
\* waiting for the next client message, nobody is cancelling a task of the
\* session or disconnecting it: nothing that concerns the session is under
\* way
SessionAtRest(e) ==
    /\ running = None
    /\ Registered(e)
    /\ waiting[e].kind = "recv"
    /\ \A k \in TasksOf(e) : NobodyAwaits(k)
    /\ ~Disconnecting(connection[e].client_id)

\* C21: a registered session between two client messages has is_streaming
\* exactly when current_task_id names a task registered in streaming_tasks;
\* if none of its tasks is still running it is idle (is_streaming false,
\* current_task_id none); and a task that has finished, once the coroutine
\* that cancelled it has gone on, is no longer registered in
\* streaming_tasks.
C21_SessionFlagsMatchRegistry ==
    /\ \A e \in Endpoints :
          SessionAtRest(e) =>
              /\ connection[e].is_streaming
                    <=> /\ connection[e].current_task_id # None
                        /\ streaming_tasks[connection[e].current_task_id] # None
              /\ (\A k \in TasksOf(e) : ~Live(k)) =>
                    /\ ~connection[e].is_streaming
                    /\ connection[e].current_task_id = None
    /\ \A k \in Tasks :
          (running = None /\ Finished(k) /\ NobodyAwaits(k))
              => streaming_tasks[tasks[k].task_id] # k

\* the client on whose behalf the coroutine runs: an endpoint serves the
\* client of its connection, a streaming task the client it was started for
ActsFor(c) ==
    IF c \in Endpoints THEN connection[c].client_id ELSE tasks[c].client_id

\* the step cancels the task, or takes it out of streaming_tasks
Disturbed(k) ==
    \/ Live(k) /\ tasks'[k].state # "pending"
    \/ Live(k) /\ ~tasks[k].must_cancel /\ tasks'[k].must_cancel
    \/ /\ Live(k)
       /\ streaming_tasks[tasks[k].task_id] = k
       /\ streaming_tasks'[tasks[k].task_id] # k

\* C22: tasks are isolated between sessions.  No step that a coroutine takes
\* for one client (its stop_generation, its new stream_query, its
\* disconnect, the completion of its task) cancels, ends or unregisters a
\* live task of a different client, also when the two tasks carry the same
\* task_id.
C22_TasksIsolatedBetweenSessions ==
    [][\A c \in Endpoints \cup Tasks : \A k \in Tasks :
          (running = c /\ Disturbed(k)) => tasks[k].client_id = ActsFor(c)]_vars

\* the step changes last_activity of a session that stays the same session
ActivityAdvances(e) ==
    /\ Registered(e)
    /\ connection'[e].client_id = connection[e].client_id
    /\ connection'[e].last_activity # connection[e].last_activity

\* the step is the call of cleanup_inactive_connections
SweepCalled ==
    /\ running = None
    /\ waiting["sweep"].kind = "unstarted"
    /\ running' = "sweep"

\* the clients the sweep is disconnecting or has still to disconnect
SweepTargets ==
    { stack["sweep"][i].client_id : i \in DOMAIN stack["sweep"] }
        \cup UNION { stack["sweep"][i].inactive_clients : i \in DOMAIN stack["sweep"] }

\* the sweep is at the return of its disconnect(client_id)
SweepDisconnectReturns == running = "sweep" /\ At("disconnect", "return")

\* C23: last_activity of a session is advanced only by handle_message for
\* an inbound client message, never by a step of a streaming task that
\* sends a chunk; cleanup_inactive_connections selects exactly the sessions
\* with now - last_activity > timeout; when its disconnect of a selected
\* session returns, the session is gone and its task is no longer running,
\* also when the session was streaming; and no step of the sweep changes a
\* session it did not select.
C23_SweepDisconnectsExactlyInactive ==
    [][/\ \A e \in Endpoints :
             ActivityAdvances(e) =>
                 running \in Endpoints /\ At("handle_message", "enter")
       /\ SweepCalled =>
             stack'["sweep"][1].inactive_clients =
                 { connection[e].client_id : e \in { x \in Endpoints : Inactive(x) } }
       /\ SweepDisconnectReturns =>
             /\ connections[Top(running).client_id] = None
             /\ \A k \in Tasks :
                   tasks[k].client_id = Top(running).client_id => ~Live(k)
       /\ running = "sweep" =>
             \A c \in ClientIds \ SweepTargets :
                 /\ connections'[c] = connections[c]
                 /\ connections[c] # None =>
                        connection'[connections[c]] = connection[connections[c]]
                 /\ \A k \in Tasks : tasks[k].client_id = c => ~Disturbed(k)
      ]_vars

\* the points are the points of one completed store_chunks call, whole
FromOneStore(ps) ==
    \/ ps = {}
    \/ \E i \in 1..Len(store_log) :
          LET call == store_log[i] IN
          /\ call.op = "store_chunks"
          /\ { p.payload.content : p \in ps } =
                { call.chunks_with_embeddings[j][1].content :
                    j \in 1..Len(call.chunks_with_embeddings) }
          /\ Cardinality(ps) = Len(call.chunks_with_embeddings)

\* C24: re-indexing a file is one unit, serialized per file path: no two
\* callers are between the delete and the upsert of the same path at the
\* same time, and what a search can see of a path that has been re-indexed
\* is the chunks of one re-indexing, never the chunks of two mixed.
C24_ReindexIsSerializedPerPath ==
    /\ \A r1, r2 \in Indexers :
          (/\ r1 # r2
           /\ reindex[r1].pc = "deleted"
           /\ reindex[r2].pc = "deleted")
              => reindex[r1].file_path # reindex[r2].file_path
    /\ \A file_path \in FilePaths :
          (/\ \A r \in Indexers : reindex[r].pc = "idle"
           /\ \A i \in 1..Len(store_log) :
                 store_log[i].op # "initialize" => store_log[i].value = "True"
           /\ \E i \in 1..Len(store_log) :
                 /\ store_log[i].op = "store_chunks"
                 /\ store_log[i].chunks_with_embeddings \in ChunksOfFile(file_path))
              => FromOneStore(OfPath(points, file_path))

\* how many points the i-th call of the log added to the collection
StoredBy(i) == Cardinality(PointsAfter(i)) - Cardinality(store_log[i].points_before)

\* the i-th call is a store_chunks of several batches that failed
FailedBatchedStore(i) ==
    /\ store_log[i].op = "store_chunks"
    /\ store_log[i].value = "False"
    /\ NumStoreBatches(Len(store_log[i].chunks_with_embeddings)) > 1

\* C25: a store_chunks of several batches that fails at batch k tells the
\* caller which batch failed, so that the caller knows which batches are
\* not stored: two failed calls with the same chunks that are told the same
\* have stored the same batches.
C25_FailedBatchIsReported ==
    \A i, j \in DOMAIN store_log :
        (/\ FailedBatchedStore(i)
         /\ FailedBatchedStore(j)
         /\ store_log[i].chunks_with_embeddings = store_log[j].chunks_with_embeddings
         /\ store_log[i].status = store_log[j].status
         /\ store_log[i].value = store_log[j].value)
            => StoredBy(i) = StoredBy(j)

\* the step is a call of generate_embeddings or generate_query_embedding
\* that returns
EmbedReturns ==
    /\ emb_calls' = emb_calls + 1
    /\ emb_result'.op \in {"embed", "embed_query"}
    /\ emb_result'.status = "ok"

\* C26: the cache is flushed to disk at the end of every call that added at
\* least one entry, for generate_embeddings and generate_query_embedding
\* alike: when such a call returns, the cache file holds every entry of the
\* cache in memory; a call that added nothing does not write the file.
C26_CacheFlushedAfterEveryAddingCall ==
    [][EmbedReturns =>
          IF embedding_cache' # embedding_cache
          THEN cache_file' = embedding_cache'
          ELSE cache_file' = cache_file]_vars

\* C27: no two chunks returned by one parse_file call have the same id,
\* also when two nodes of one category span the same lines, and among the
\* sub-chunks of a split.
C27_ChunkIdsUniqueInOnePass ==
    parse_result.status = "ok" =>
        \A i, j \in DOMAIN parse_result.chunks :
            i # j => parse_result.chunks[i].id # parse_result.chunks[j].id

\* the lines of the file around the chunk: the two lines (or the fewer
\* there are) right before line_start, then the two right after line_end
LinesAround(chunk, lines) ==
    Slice(lines, Max(0, chunk.line_start - 3), chunk.line_start - 1)
        \o Slice(lines, chunk.line_end, Min(Len(lines), chunk.line_end + 2))

\* C28: the context of every chunk parse_file returns holds only lines
\* outside the chunk: the (at most) two lines right before line_start and
\* the (at most) two right after line_end, wherever the chunk lies in the
\* file; and attaching the context changes nothing else of the chunk.
C28_ContextIsTheLinesAround ==
    (parse_result.status = "ok" /\ parse_result.chunks # << >>) =>
        LET lines == Split(parse_call.file.content)
            before == _split_large_chunks(parse_result.extracted,
                                          parse_call.max_chunk_size)
        IN  /\ Len(parse_result.chunks) = Len(before)
            /\ \A i \in DOMAIN parse_result.chunks :
                  LET chunk == parse_result.chunks[i] IN
                  /\ [chunk EXCEPT !.context = before[i].context] = before[i]
                  /\ IF LinesAround(chunk, lines) = << >>
                     THEN ~chunk.context.set
                     ELSE /\ chunk.context.set
                          /\ chunk.context.text = Join(LinesAround(chunk, lines))

\* the names in the status table, in the order of the table
StatusNames == [i \in DOMAIN provider_status |-> provider_status[i].name]

\* the step is the probe of a provider in a health sweep
Probed == llm_result' # llm_result /\ llm_result'.op = "sweep_step"

\* the health sweep has gone through all the providers
SweepDone ==
    /\ llm_result.op = "sweep_step"
    /\ sweep_todo = << >>

PassingBySpec(filters, collection) ==
    IF ~filters.given \/ filters.items = << >> THEN collection
    ELSE { p \in collection :
            \E k \in DOMAIN filters.items :
                \E j \in DOMAIN filters.items[k].values :
                    p.payload[filters.items[k].field] = filters.items[k].values[j] }

\* a search that the server answered, or that never reached the server
SearchNotFailedByServer(i) ==
    /\ store_log[i].op = "search_similar"
    /\ store_log[i].status = "ok"
    /\ store_log[i].failure # "client"

\* C30: the filters of a search compose by OR: a stored point passes the
\* filter exactly when it matches at least one (field, value) pair of the
\* mapping, whether the values are listed for one field or for several, and
\* an empty or absent mapping lets every point pass
C30_FiltersComposeByOr ==
    \A i \in DOMAIN store_log :
        SearchNotFailedByServer(i) =>
            store_log[i].passed
                = PassingBySpec(store_log[i].filters, store_log[i].points_before)
=============================================================================
